---- MODULE Spec2Model ----
(***************************************************************************)
(* Issue deduplication and lifecycle engine of kite (issueRepository):     *)
(* the four relations issues / issue_scopes / links / related_issues and   *)
(* the repository operations that read and write them.                     *)
(*                                                                         *)
(* Spec      one caller: every repository call runs to completion.         *)
(* SpecConc  several callers: a call is a sequence of SQL statements, the  *)
(*           statements of different callers interleave (READ COMMITTED).  *)
(* The other specifications put one part of the program in front: SpecGraph *)
(* and SpecRelate the relations, SpecUpdate the updates, SpecRead and       *)
(* SpecDedup the reads, SpecWebhook and SpecHttp the webhook route.         *)
(***************************************************************************)
EXTENDS Integers, Sequences, FiniteSets, Bags, TLC

VARIABLES
    issues,     \* table issues:         id -> row
    scopes,     \* table issue_scopes:   id -> row
    links,      \* table links:          bag of rows [issue_id, title, url]
    edges,      \* table related_issues: bag of rows [source_id, target_id]
    nextId,     \* number of uuids handed out so far (ids are never reused)
    clock,      \* the wall clock read by time.Now()
    last,       \* the last completed call of the single caller: op, arg, ret, err
    pc,         \* SpecConc: position of each caller inside its call
    call,       \* SpecConc: the call a caller is running (op, arg, values read)
    delta,      \* SpecConc: uncommitted writes of each caller's open transaction
    done        \* SpecConc: results of the calls each caller has completed

vars == <<issues, scopes, links, edges, nextId, clock, last, pc, call, delta, done>>

----------------------------------------------------------------------------
(* Bounds of the model *)

MaxIds == 2      \* uuids that can be generated in one behaviour
MaxClock == 2    \* last instant of the wall clock
NumProcs == 2    \* concurrent callers of SpecConc
MaxCalls == 1    \* calls each concurrent caller completes

(* Program constants *)

NoTime == 0      \* a nil *time.Time / the zero time.Time
NoId == 0        \* a nil *models.Issue

ACTIVE == "ACTIVE"
RESOLVED == "RESOLVED"

Ids == 1..MaxIds
Times == 1..MaxClock
Procs == 1..NumProcs

----------------------------------------------------------------------------
(* Payloads handed to the repository (dto.IssuePayload).  An empty string,  *)
(* an empty sequence and NoTime are the Go zero values ("not supplied").    *)

Link1 == [title |-> "log", url |-> "u1"]
Link2 == [title |-> "log", url |-> "u2"]

Scope(rt, rn, rns) ==
    [resourceType |-> rt, resourceName |-> rn, resourceNamespace |-> rns]

NoScope == Scope("", "", "")

Payload(t, d, sev, ty, ns, sc, ls, st, ra) ==
    [title |-> t, description |-> d, severity |-> sev, issueType |-> ty,
     namespace |-> ns, scope |-> sc, links |-> ls, state |-> st, resolvedAt |-> ra]

\* dto.CreateIssueRequest values: title, description, severity, issueType,
\* namespace and scope type/name are required by the binding; the scope's
\* resourceNamespace, the links and the state are optional.
ReportA == Payload("t1", "d1", "major", "build", "a", Scope("component", "x", ""), <<Link1>>, "", NoTime)
ReportA2 == Payload("t2", "d1", "major", "build", "a", Scope("component", "x", "a"), <<Link2>>, ACTIVE, NoTime)
ReportTest == Payload("t1", "d1", "major", "test", "a", Scope("component", "x", ""), <<>>, "", NoTime)
ReportOtherNs == Payload("t1", "d1", "major", "build", "a", Scope("component", "x", "b"), <<>>, "", NoTime)
ReportB == Payload("t1", "d1", "major", "build", "b", Scope("component", "x", ""), <<Link2>>, "", NoTime)

Reports == {ReportA, ReportA2, ReportTest, ReportOtherNs, ReportB}

\* dto.UpdateIssueRequest values: every field optional.
Updates ==
    { Payload("t2", "", "", "", "", NoScope, <<>>, "", NoTime),
      Payload("", "", "", "", "", NoScope, <<Link2>>, RESOLVED, NoTime) }

ScopeArgs == { <<"component", "x", "a">>, <<"component", "x", "b">>, <<"component", "y", "a">> }

----------------------------------------------------------------------------
(* The store as one value, and helpers on tables *)

DB == [issues |-> issues, scopes |-> scopes, links |-> links, edges |-> edges]

EmptyDB == [issues |-> <<>>, scopes |-> <<>>, links |-> EmptyBag, edges |-> EmptyBag]

Put(f, k, v) == [x \in DOMAIN f \cup {k} |-> IF x = k THEN v ELSE f[x]]

Drop(f, K) == [x \in DOMAIN f \ K |-> f[x]]

AddRow(b, r) == b (+) SetToBag({r})

RECURSIVE AddRows(_, _)
AddRows(b, rs) == IF rs = <<>> THEN b ELSE AddRows(AddRow(b, Head(rs)), Tail(rs))

Min(S) == CHOOSE x \in S : \A y \in S : x <= y

----------------------------------------------------------------------------
(* Schema constraints (PostgreSQL checks them at the end of each statement) *)

\* Variant of ConstraintsOk: related_issues without its two foreign keys.
ConstraintsOkNoEdgeKeys(d) ==
    /\ \A i \in DOMAIN d.issues : d.issues[i].scope_id \in DOMAIN d.scopes
    /\ \A i, j \in DOMAIN d.issues : d.issues[i].scope_id = d.issues[j].scope_id => i = j
    /\ \A l \in BagToSet(d.links) : l.issue_id \in DOMAIN d.issues

\* fk_issue_scopes_issue, uni_issues_scope_id, fk_issues_links,
\* fk_issues_related_from, fk_issues_related_to
ConstraintsOk(d) ==
    /\ \A i \in DOMAIN d.issues : d.issues[i].scope_id \in DOMAIN d.scopes
    /\ \A i, j \in DOMAIN d.issues : d.issues[i].scope_id = d.issues[j].scope_id => i = j
    /\ \A l \in BagToSet(d.links) : l.issue_id \in DOMAIN d.issues
    /\ \A e \in BagToSet(d.edges) : e.source_id \in DOMAIN d.issues /\ e.target_id \in DOMAIN d.issues

----------------------------------------------------------------------------
(* Reads *)

\* What a caller keeps of a loaded *models.Issue: its id, State and ScopeID.
NoIssue == [id |-> NoId, state |-> "", scope_id |-> NoId]

Loaded(d, id) == [id |-> id, state |-> d.issues[id].state, scope_id |-> d.issues[id].scope_id]

FindByID(d, id) == IF id \in DOMAIN d.issues THEN Loaded(d, id) ELSE NoIssue

\* The rows selected by the WHERE clauses of findDuplicateInTx.
DuplicateRows(d, req) ==
    { i \in DOMAIN d.issues :
        /\ d.issues[i].scope_id \in DOMAIN d.scopes
        /\ d.issues[i].namespace = req.namespace
        /\ d.issues[i].issue_type = req.issueType
        /\ d.issues[i].state \in {ACTIVE, RESOLVED}
        /\ d.scopes[d.issues[i].scope_id].resource_type = req.scope.resourceType
        /\ d.scopes[d.issues[i].scope_id].resource_name = req.scope.resourceName
        /\ d.scopes[d.issues[i].scope_id].resource_namespace = req.namespace }

\* First(&existingIssue): the first selected row in primary-key order, or nil.
findDuplicateInTx(d, req) ==
    IF DuplicateRows(d, req) = {} THEN NoIssue ELSE Loaded(d, Min(DuplicateRows(d, req)))

\* Variant of ResolveIds: the state filter is left out of the WHERE clause.
ResolveIdsAnyState(d, rt, rn, ns) ==
    { i \in DOMAIN d.issues :
        /\ d.issues[i].scope_id \in DOMAIN d.scopes
        /\ d.issues[i].namespace = ns
        /\ d.scopes[d.issues[i].scope_id].resource_type = rt
        /\ d.scopes[d.issues[i].scope_id].resource_name = rn }

\* The ids plucked by the first statement of ResolveByScope.
ResolveIds(d, rt, rn, ns) ==
    { i \in DOMAIN d.issues :
        /\ d.issues[i].scope_id \in DOMAIN d.scopes
        /\ d.issues[i].state = ACTIVE
        /\ d.issues[i].namespace = ns
        /\ d.scopes[d.issues[i].scope_id].resource_type = rt
        /\ d.scopes[d.issues[i].scope_id].resource_name = rn }

\* Variant of RelationRows: only the direction (s, t) is looked up.
RelationRowsOneWay(d, s, t) ==
    { e \in BagToSet(d.edges) : e.source_id = s /\ e.target_id = t }

\* The relation looked up by AddRelatedIssue and deleted by RemoveRelatedIssue.
RelationRows(d, s, t) ==
    { e \in BagToSet(d.edges) :
        \/ e.source_id = s /\ e.target_id = t
        \/ e.source_id = t /\ e.target_id = s }

----------------------------------------------------------------------------
(* Writes: each operator is one statement (or one helper) of the repository *)

LinkRows(id, ls) == [k \in DOMAIN ls |-> [issue_id |-> id, title |-> ls[k].title, url |-> ls[k].url]]

\* tx.Create(&newIssue): inserts the scope, the issue and its links.
createNewIssueInTx(d, req, id, now, gormNow) ==
    [d EXCEPT
        !.scopes = Put(@, id,
            [resource_type |-> req.scope.resourceType,
             resource_name |-> req.scope.resourceName,
             resource_namespace |-> IF req.scope.resourceNamespace = ""
                                    THEN req.namespace ELSE req.scope.resourceNamespace]),
        !.issues = Put(@, id,
            [title |-> req.title, description |-> req.description,
             severity |-> req.severity, issue_type |-> req.issueType,
             state |-> IF req.state = "" THEN ACTIVE ELSE req.state,
             detected_at |-> now, resolved_at |-> NoTime, updated_at |-> gormNow,
             namespace |-> req.namespace, scope_id |-> id]),
        !.links = AddRows(@, LinkRows(id, req.links))]

\* Variant of UpdatedRow: every field of the payload is written, supplied or not.
UpdatedRowFullReplace(row, existing, req, now, now2) ==
    [row EXCEPT
        !.title = req.title,
        !.description = req.description,
        !.severity = req.severity,
        !.issue_type = req.issueType,
        !.namespace = req.namespace,
        !.updated_at = now,
        !.state = req.state,
        !.resolved_at = req.resolvedAt]

\* The updates map of updateIssueInTx applied to one row.
UpdatedRow(row, existing, req, now, now2) ==
    [row EXCEPT
        !.title = IF req.title # "" THEN req.title ELSE @,
        !.description = IF req.description # "" THEN req.description ELSE @,
        !.severity = IF req.severity # "" THEN req.severity ELSE @,
        !.issue_type = IF req.issueType # "" THEN req.issueType ELSE @,
        !.namespace = IF req.namespace # "" THEN req.namespace ELSE @,
        !.updated_at = now,
        !.state = IF req.state # "" THEN req.state ELSE @,
        !.resolved_at =
            IF req.state = "" THEN @
            ELSE IF req.state = RESOLVED /\ existing.state # RESOLVED THEN now2
            ELSE IF req.resolvedAt # NoTime THEN req.resolvedAt
            ELSE @]

\* tx.Where("issue_id = ?", issueID).Delete(&models.Link{})
deleteLinks(d, id) ==
    [d EXCEPT !.links = [l \in {x \in DOMAIN @ : x.issue_id # id} |-> @[l]]]

\* Variant of replaceIssueLinks: the old links are kept.
replaceIssueLinksMerge(d, id, ls) ==
    [d EXCEPT !.links = AddRows(@, LinkRows(id, ls))]

replaceIssueLinks(d, id, ls) ==
    [deleteLinks(d, id) EXCEPT !.links = AddRows(@, LinkRows(id, ls))]

\* Variant of updateIssueScopeInTx: the UPDATE without its WHERE id = ?.
updateIssueScopeEverywhere(d, sid, sc) ==
    [d EXCEPT !.scopes =
        [s \in DOMAIN d.scopes |->
            [resource_type |-> IF sc.resourceType # "" THEN sc.resourceType ELSE @[s].resource_type,
             resource_name |-> IF sc.resourceName # "" THEN sc.resourceName ELSE @[s].resource_name,
             resource_namespace |-> IF sc.resourceNamespace # ""
                                    THEN sc.resourceNamespace ELSE @[s].resource_namespace]]]

\* Updates(req) with a struct: only the non-zero fields are written.
updateIssueScopeInTx(d, sid, sc) ==
    IF sid \notin DOMAIN d.scopes THEN d
    ELSE [d EXCEPT !.scopes[sid] =
            [resource_type |-> IF sc.resourceType # "" THEN sc.resourceType ELSE @.resource_type,
             resource_name |-> IF sc.resourceName # "" THEN sc.resourceName ELSE @.resource_name,
             resource_namespace |-> IF sc.resourceNamespace # ""
                                    THEN sc.resourceNamespace ELSE @.resource_namespace]]

\* The three statements of updateIssueInTx, in order.
updateIssueRow(d, existing, req, now, now2) ==
    IF existing.id \notin DOMAIN d.issues THEN d
    ELSE [d EXCEPT !.issues[existing.id] = UpdatedRow(@, existing, req, now, now2)]

\* Statement k (1..3) of updateIssueInTx: the issue row, the links when the
\* payload has any, the scope when the payload has one.
UpdateStmt(d, existing, req, k, now, now2) ==
    CASE k = 1 -> updateIssueRow(d, existing, req, now, now2)
      [] k = 2 -> IF Len(req.links) > 0 THEN replaceIssueLinks(d, existing.id, req.links) ELSE d
      [] k = 3 -> IF req.scope # NoScope
                  THEN updateIssueScopeInTx(d, existing.scope_id, req.scope) ELSE d

UpdateStmts == 3

updateIssueInTx(d, existing, req, now, now2) ==
    UpdateStmt(UpdateStmt(UpdateStmt(d, existing, req, 1, now, now2),
                          existing, req, 2, now, now2),
               existing, req, 3, now, now2)

\* Variant of CreateUpdateReq: the links of the report are passed on.
CreateUpdateReqWithLinks(req) == [req EXCEPT !.resolvedAt = NoTime]

\* The dto.UpdateIssueRequest that Create builds from the report.
CreateUpdateReq(req) == [req EXCEPT !.links = <<>>, !.resolvedAt = NoTime]

\* The four statements of Delete's transaction.
deleteEdges(d, id) ==
    [d EXCEPT !.edges = [e \in {x \in DOMAIN @ : x.source_id # id /\ x.target_id # id} |-> @[e]]]

deleteIssue(d, id) == [d EXCEPT !.issues = Drop(@, {id})]

\* Variant of deleteScope: the DELETE statement removes no row.
deleteScopeKept(d, sid) == d

deleteScope(d, sid) == [d EXCEPT !.scopes = Drop(@, {sid})]

\* Variant of DeleteStmt: the scope row is not deleted.
DeleteStmtNoScope(d, issue, k) ==
    CASE k = 1 -> deleteEdges(d, issue.id)
      [] k = 2 -> deleteLinks(d, issue.id)
      [] k = 3 -> deleteIssue(d, issue.id)
      [] k = 4 -> d

\* Statement k (1..4) of Delete's transaction for a loaded issue.
DeleteStmt(d, issue, k) ==
    CASE k = 1 -> deleteEdges(d, issue.id)
      [] k = 2 -> deleteLinks(d, issue.id)
      [] k = 3 -> deleteIssue(d, issue.id)
      [] k = 4 -> deleteScope(d, issue.scope_id)

DeleteStmts == 4

RECURSIVE DeleteFrom(_, _, _)
\* Statements k..4 of Delete's transaction; an error (a violated constraint)
\* makes the transaction function return, which rolls everything back.
DeleteFrom(d, issue, k) ==
    IF k > DeleteStmts THEN [ok |-> TRUE, db |-> d]
    ELSE IF ~ConstraintsOk(DeleteStmt(d, issue, k)) THEN [ok |-> FALSE, db |-> d]
    ELSE DeleteFrom(DeleteStmt(d, issue, k), issue, k + 1)

\* Variant of ResolveUpdate: updated_at is left out of the updates map.
ResolveUpdateKeepsUpdatedAt(d, ids, now) ==
    [d EXCEPT !.issues =
        [i \in DOMAIN @ |->
            IF i \in ids
            THEN [@[i] EXCEPT !.state = RESOLVED, !.resolved_at = now]
            ELSE @[i]]]

\* Second statement of ResolveByScope: UPDATE issues ... WHERE id IN ids.
ResolveUpdate(d, ids, now) ==
    [d EXCEPT !.issues =
        [i \in DOMAIN @ |->
            IF i \in ids
            THEN [@[i] EXCEPT !.state = RESOLVED, !.resolved_at = now, !.updated_at = now]
            ELSE @[i]]]

\* Create(&relation)
insertRelation(d, s, t) == [d EXCEPT !.edges = AddRow(@, [source_id |-> s, target_id |-> t])]

\* Variant of deleteRelation: only the direction (s, t) is deleted.
deleteRelationOneWay(d, s, t) ==
    [d EXCEPT !.edges = [e \in DOMAIN @ \ RelationRowsOneWay(d, s, t) |-> @[e]]]

\* Delete(&models.RelatedIssue{}) of RemoveRelatedIssue
deleteRelation(d, s, t) ==
    [d EXCEPT !.edges = [e \in DOMAIN @ \ RelationRows(d, s, t) |-> @[e]]]

----------------------------------------------------------------------------
(* One caller: every call runs to completion before the next one starts.    *)

SetDB(d) ==
    /\ issues' = d.issues
    /\ scopes' = d.scopes
    /\ links' = d.links
    /\ edges' = d.edges

Returned(op, arg, ret, err) == [op |-> op, arg |-> arg, ret |-> ret, err |-> err]

ConcIdle == UNCHANGED <<pc, call, delta, done>>

\* A transaction function that returned nil commits; a statement that breaks
\* a constraint makes it return the error, and the store is rolled back.
TxResult(d0, d1) ==
    IF ConstraintsOk(d1) THEN [ok |-> TRUE, db |-> d1] ELSE [ok |-> FALSE, db |-> d0]

\* The transaction of CreateOrUpdate (useLinks) and of Create (~useLinks).
UpsertTx(d, req, useLinks, id, now, now2) ==
    LET existing == findDuplicateInTx(d, req) IN
    IF existing = NoIssue
    THEN [tx |-> TxResult(d, createNewIssueInTx(d, req, id, now, now2)), issue |-> id, created |-> TRUE]
    ELSE [tx |-> TxResult(d, updateIssueInTx(d, existing,
                                 IF useLinks THEN req ELSE CreateUpdateReq(req), now, now2)),
          issue |-> existing.id, created |-> FALSE]

Upsert(op, req, useLinks) ==
    \E now \in clock..MaxClock, now2 \in clock..MaxClock :
        /\ now <= now2
        /\ LET r == UpsertTx(DB, req, useLinks, nextId + 1, now, now2) IN
            /\ r.created => nextId < MaxIds
            /\ SetDB(r.tx.db)
            /\ nextId' = IF r.created THEN nextId + 1 ELSE nextId
            /\ clock' = now2
            /\ last' = IF r.tx.ok
                       THEN Returned(op, req, FindByID(r.tx.db, r.issue).id, FALSE)
                       ELSE Returned(op, req, NoId, TRUE)
        /\ ConcIdle

CreateOrUpdate(req) == Upsert("CreateOrUpdate", req, TRUE)

\* Variant of Create: the issue is inserted without the lookup of a duplicate.
CreateAlwaysInsert(req) ==
    \E now \in clock..MaxClock, now2 \in clock..MaxClock :
        /\ now <= now2
        /\ nextId < MaxIds
        /\ LET tx == TxResult(DB, createNewIssueInTx(DB, req, nextId + 1, now, now2)) IN
            /\ SetDB(tx.db)
            /\ last' = IF tx.ok THEN Returned("Create", req, nextId + 1, FALSE)
                                ELSE Returned("Create", req, NoId, TRUE)
        /\ nextId' = nextId + 1
        /\ clock' = now2
        /\ ConcIdle

Create(req) == Upsert("Create", req, FALSE)

Update(id, req) ==
    \E now \in clock..MaxClock, now2 \in clock..MaxClock :
        /\ now <= now2
        /\ LET existing == FindByID(DB, id)
               r == TxResult(DB, updateIssueInTx(DB, existing, req, now, now2))
           IN  IF existing = NoIssue
               THEN /\ last' = Returned("Update", [id |-> id, req |-> req], NoId, TRUE)
                    /\ UNCHANGED <<issues, scopes, links, edges, clock>>
               ELSE /\ SetDB(r.db)
                    /\ clock' = now2
                    /\ last' = IF r.ok
                               THEN Returned("Update", [id |-> id, req |-> req], FindByID(r.db, id).id, FALSE)
                               ELSE Returned("Update", [id |-> id, req |-> req], NoId, TRUE)
        /\ UNCHANGED nextId
        /\ ConcIdle

\* Variant of Delete: the nil check after FindByID is left out.
DeleteNoCheck(id) ==
    /\ SetDB(DeleteFrom(DB, FindByID(DB, id), 1).db)
    /\ last' = Returned("Delete", id, NoId, ~DeleteFrom(DB, FindByID(DB, id), 1).ok)
    /\ UNCHANGED <<nextId, clock>>
    /\ ConcIdle

Delete(id) ==
    LET issue == FindByID(DB, id)
        r == DeleteFrom(DB, issue, 1)
    IN  /\ IF issue = NoIssue
           THEN /\ last' = Returned("Delete", id, NoId, TRUE)
                /\ UNCHANGED <<issues, scopes, links, edges>>
           ELSE /\ SetDB(r.db)
                /\ last' = Returned("Delete", id, NoId, ~r.ok)
        /\ UNCHANGED <<nextId, clock>>
        /\ ConcIdle

ResolveByScope(rt, rn, ns) ==
    \E now \in clock..MaxClock :
        LET ids == ResolveIds(DB, rt, rn, ns)
            d1 == ResolveUpdate(DB, ids, now)
        IN  /\ IF ids = {}
               THEN /\ last' = Returned("ResolveByScope", <<rt, rn, ns>>, 0, FALSE)
                    /\ UNCHANGED <<issues, scopes, links, edges>>
               ELSE /\ SetDB(d1)
                    /\ last' = Returned("ResolveByScope", <<rt, rn, ns>>,
                                        Cardinality(ids \cap DOMAIN issues), FALSE)
            /\ clock' = now
            /\ UNCHANGED nextId
            /\ ConcIdle

\* Variant of AddRelatedIssue: no existence check, and the error of the
\* insert is not returned.
AddRelatedIssueUnchecked(s, t) ==
    /\ IF RelationRows(DB, s, t) # {}
       THEN /\ last' = Returned("AddRelatedIssue", <<s, t>>, NoId, TRUE)
            /\ UNCHANGED <<issues, scopes, links, edges>>
       ELSE /\ SetDB(insertRelation(DB, s, t))
            /\ last' = Returned("AddRelatedIssue", <<s, t>>, NoId, FALSE)
    /\ UNCHANGED <<nextId, clock>>
    /\ ConcIdle

AddRelatedIssue(s, t) ==
    LET source == FindByID(DB, s)
        target == FindByID(DB, t)
        d1 == insertRelation(DB, s, t)
    IN  /\ IF source = NoIssue \/ target = NoIssue
           THEN /\ last' = Returned("AddRelatedIssue", <<s, t>>, NoId, TRUE)
                /\ UNCHANGED <<issues, scopes, links, edges>>
           ELSE IF RelationRows(DB, s, t) # {}
           THEN /\ last' = Returned("AddRelatedIssue", <<s, t>>, NoId, TRUE)
                /\ UNCHANGED <<issues, scopes, links, edges>>
           ELSE /\ SetDB(TxResult(DB, d1).db)
                /\ last' = Returned("AddRelatedIssue", <<s, t>>, NoId, ~TxResult(DB, d1).ok)
        /\ UNCHANGED <<nextId, clock>>
        /\ ConcIdle

RemoveRelatedIssue(s, t) ==
    /\ IF RelationRows(DB, s, t) = {}
       THEN /\ last' = Returned("RemoveRelatedIssue", <<s, t>>, NoId, TRUE)
            /\ UNCHANGED <<issues, scopes, links, edges>>
       ELSE /\ SetDB(deleteRelation(DB, s, t))
            /\ last' = Returned("RemoveRelatedIssue", <<s, t>>, NoId, FALSE)
    /\ UNCHANGED <<nextId, clock>>
    /\ ConcIdle

NoCall == Returned("none", NoId, NoId, FALSE)

\* A caller that runs no call, and a transaction that has written nothing.
NoRun == [op |-> "none", arg |-> NoId, existing |-> NoIssue, k |-> 0]

NoDelta ==
    [issues |-> <<>>, delIssues |-> {}, scopes |-> <<>>, delScopes |-> {},
     links |-> EmptyBag, delLinks |-> EmptyBag, edges |-> EmptyBag, delEdges |-> EmptyBag,
     locked |-> {}]

Init ==
    /\ issues = <<>>
    /\ scopes = <<>>
    /\ links = EmptyBag
    /\ edges = EmptyBag
    /\ nextId = 0
    /\ clock = 1
    /\ last = NoCall
    /\ pc = [p \in Procs |-> "idle"]
    /\ call = [p \in Procs |-> NoRun]
    /\ delta = [p \in Procs |-> NoDelta]
    /\ done = [p \in Procs |-> <<>>]

Next ==
    \/ \E req \in Reports : CreateOrUpdate(req)
    \/ \E req \in Reports : Create(req)
    \/ \E id \in Ids, req \in Updates : Update(id, req)
    \/ \E id \in Ids : Delete(id)
    \/ \E a \in ScopeArgs : ResolveByScope(a[1], a[2], a[3])

Spec == Init /\ [][Next]_vars

InitGraph ==
    /\ issues = <<>>
    /\ scopes = <<>>
    /\ links = EmptyBag
    /\ edges = EmptyBag
    /\ nextId = 0
    /\ clock = MaxClock
    /\ last = NoCall
    /\ pc = [p \in Procs |-> "idle"]
    /\ call = [p \in Procs |-> NoRun]
    /\ delta = [p \in Procs |-> NoDelta]
    /\ done = [p \in Procs |-> <<>>]

NextGraph ==
    \/ \E req \in Reports : CreateOrUpdate(req)
    \/ \E id \in Ids : Delete(id)
    \/ \E s \in Ids, t \in Ids : AddRelatedIssue(s, t)
    \/ \E s \in Ids, t \in Ids : RemoveRelatedIssue(s, t)

SpecGraph == InitGraph /\ [][NextGraph]_vars

----------------------------------------------------------------------------
(* Several callers.  A call is a sequence of statements; the statements of  *)
(* a db.Transaction write to the transaction's own delta, which the COMMIT  *)
(* that follows the last statement applies to the store (READ COMMITTED:    *)
(* every statement sees the committed store plus its own delta).            *)

\* Variant of InTransaction: Delete runs its statements without a transaction.
InTransactionNoDelete(op) == op \in {"CreateOrUpdate", "Update"}

\* The operations whose statements run inside db.Transaction.
InTransaction(op) == op \in {"CreateOrUpdate", "Update", "Delete"}

\* The store as seen by a transaction that has written x.
Overlay(d, x) ==
    [issues |-> [i \in (DOMAIN d.issues \ x.delIssues) \cup DOMAIN x.issues |->
                    IF i \in DOMAIN x.issues THEN x.issues[i] ELSE d.issues[i]],
     scopes |-> [i \in (DOMAIN d.scopes \ x.delScopes) \cup DOMAIN x.scopes |->
                    IF i \in DOMAIN x.scopes THEN x.scopes[i] ELSE d.scopes[i]],
     links |-> (d.links (-) x.delLinks) (+) x.links,
     edges |-> (d.edges (-) x.delEdges) (+) x.edges]

\* What a transaction has written when it sees v and the store is d.
Diff(d, v, locked) ==
    [issues |-> [i \in {j \in DOMAIN v.issues :
                          j \notin DOMAIN d.issues \/ d.issues[j] # v.issues[j]} |-> v.issues[i]],
     delIssues |-> DOMAIN d.issues \ DOMAIN v.issues,
     scopes |-> [i \in {j \in DOMAIN v.scopes :
                          j \notin DOMAIN d.scopes \/ d.scopes[j] # v.scopes[j]} |-> v.scopes[i]],
     delScopes |-> DOMAIN d.scopes \ DOMAIN v.scopes,
     links |-> v.links (-) d.links,
     delLinks |-> d.links (-) v.links,
     edges |-> v.edges (-) d.edges,
     delEdges |-> d.edges (-) v.edges,
     locked |-> locked]

View(p) == Overlay(DB, delta[p])

\* SELECT ... FOR UPDATE locks the row it returns until the transaction ends.
LockedByFind(existing) == IF existing = NoIssue THEN {} ELSE {existing.id}

\* findDuplicateInTx asks for FOR UPDATE with Set("gorm:query_option", ...),
\* a setting of the library's first version; the query built by gorm.io/gorm
\* carries the clause only if the library reads that setting. The rows the
\* lookup locks are those of a query with the clause, or none.
LockOptions(existing) == {LockedByFind(existing), {}}

\* Row locks of an open transaction: rows it deleted or selected FOR UPDATE,
\* rows it updated, and the issues its new links and edges refer to
\* (the foreign keys take a key-share lock on the referenced row).
ExclusiveIssues(x) == x.delIssues \cup x.locked

WrittenIssues(x) == (DOMAIN x.issues \cap DOMAIN issues) \cup ExclusiveIssues(x)

WrittenScopes(x) == (DOMAIN x.scopes \cap DOMAIN scopes) \cup x.delScopes

ReferencedIssues(x) ==
    {l.issue_id : l \in BagToSet(x.links)}
        \cup {e.source_id : e \in BagToSet(x.edges)}
        \cup {e.target_id : e \in BagToSet(x.edges)}

\* x waits for a row lock that y holds.
Conflict(x, y) ==
    \/ WrittenIssues(x) \cap WrittenIssues(y) # {}
    \/ WrittenScopes(x) \cap WrittenScopes(y) # {}
    \/ BagToSet(x.delLinks) \cap BagToSet(y.delLinks) # {}
    \/ BagToSet(x.delEdges) \cap BagToSet(y.delEdges) # {}
    \/ ReferencedIssues(x) \cap ExclusiveIssues(y) # {}
    \/ ExclusiveIssues(x) \cap ReferencedIssues(y) # {}

Blocked(p, x) == \E q \in Procs \ {p} : Conflict(x, delta[q])

Finish(p, ret, err) ==
    /\ done' = [done EXCEPT ![p] = Append(@, Returned(call[p].op, call[p].arg, ret, err))]
    /\ pc' = [pc EXCEPT ![p] = "idle"]
    /\ call' = [call EXCEPT ![p] = NoRun]

\* A statement of caller p that leaves its view of the store as v2.
RunStatement(p, v2, commit) ==
    /\ ~Blocked(p, Diff(DB, v2, delta[p].locked))
    /\ ConstraintsOk(v2)
    /\ IF commit \/ ~InTransaction(call[p].op)
       THEN /\ SetDB(v2)
            /\ delta' = [delta EXCEPT ![p] = NoDelta]
       ELSE /\ delta' = [delta EXCEPT ![p] = Diff(DB, v2, delta[p].locked)]
            /\ UNCHANGED <<issues, scopes, links, edges>>

\* A statement that breaks a constraint returns an error: the transaction
\* function returns it and the transaction is rolled back.
FailStatement(p, v2) ==
    /\ ~Blocked(p, Diff(DB, v2, delta[p].locked))
    /\ ~ConstraintsOk(v2)
    /\ delta' = [delta EXCEPT ![p] = NoDelta]
    /\ Finish(p, NoId, TRUE)
    /\ UNCHANGED <<issues, scopes, links, edges>>

CanStart(p) == pc[p] = "idle" /\ Len(done[p]) < MaxCalls

\* CreateOrUpdate: findDuplicateInTx
CouFind(p, req) ==
    LET existing == findDuplicateInTx(View(p), req) IN
    \E locked \in LockOptions(existing) :
        LET x == [NoDelta EXCEPT !.locked = locked]
        IN  /\ CanStart(p)
            /\ ~Blocked(p, x)
            /\ call' = [call EXCEPT ![p] =
                          [op |-> "CreateOrUpdate", arg |-> req, existing |-> existing, k |-> 0]]
            /\ pc' = [pc EXCEPT ![p] = IF existing = NoIssue THEN "create" ELSE "update"]
            /\ delta' = [delta EXCEPT ![p] = x]
            /\ UNCHANGED <<issues, scopes, links, edges, nextId, clock, last, done>>

\* CreateOrUpdate: createNewIssueInTx, then COMMIT
CouCreate(p) ==
    /\ pc[p] = "create"
    /\ nextId < MaxIds
    /\ \E now \in clock..MaxClock, now2 \in clock..MaxClock :
        /\ now <= now2
        /\ RunStatement(p, createNewIssueInTx(View(p), call[p].arg, nextId + 1, now, now2), TRUE)
        /\ clock' = now2
    /\ nextId' = nextId + 1
    /\ call' = [call EXCEPT ![p].existing = [NoIssue EXCEPT !.id = nextId + 1]]
    /\ pc' = [pc EXCEPT ![p] = "reload"]
    /\ UNCHANGED <<last, done>>

\* CreateOrUpdate: the next statement of updateIssueInTx, COMMIT after the last
CouUpdate(p) ==
    /\ pc[p] = "update"
    /\ \E now \in clock..MaxClock, now2 \in clock..MaxClock :
        /\ now <= now2
        /\ call[p].k > 0 => now = clock /\ now2 = clock
        /\ LET v2 == UpdateStmt(View(p), call[p].existing, call[p].arg, call[p].k + 1, now, now2) IN
            \/ /\ RunStatement(p, v2, call[p].k + 1 = UpdateStmts)
               /\ call' = [call EXCEPT ![p].k = @ + 1]
               /\ pc' = [pc EXCEPT ![p] = IF call[p].k + 1 = UpdateStmts THEN "reload" ELSE "update"]
               /\ clock' = now2
               /\ UNCHANGED done
            \/ /\ FailStatement(p, v2)
               /\ UNCHANGED clock
    /\ UNCHANGED <<nextId, last>>

\* CreateOrUpdate: return i.FindByID(ctx, issue.ID)
CouReload(p) ==
    /\ pc[p] = "reload"
    /\ Finish(p, FindByID(DB, call[p].existing.id).id, FALSE)
    /\ UNCHANGED <<issues, scopes, links, edges, nextId, clock, last, delta>>

\* Delete: FindByID, and the error when it finds nothing
DelFind(p, id) ==
    /\ CanStart(p)
    /\ IF FindByID(DB, id) = NoIssue
       THEN /\ done' = [done EXCEPT ![p] = Append(@, Returned("Delete", id, NoId, TRUE))]
            /\ UNCHANGED <<pc, call>>
       ELSE /\ call' = [call EXCEPT ![p] =
                          [op |-> "Delete", arg |-> id, existing |-> FindByID(DB, id), k |-> 0]]
            /\ pc' = [pc EXCEPT ![p] = "delete"]
            /\ UNCHANGED done
    /\ UNCHANGED <<issues, scopes, links, edges, nextId, clock, last, delta>>

\* Delete: the next statement of the transaction, COMMIT after the last
DelStmt(p) ==
    /\ pc[p] = "delete"
    /\ LET v2 == DeleteStmt(View(p), call[p].existing, call[p].k + 1) IN
        \/ /\ RunStatement(p, v2, call[p].k + 1 = DeleteStmts)
           /\ IF call[p].k + 1 = DeleteStmts
              THEN Finish(p, NoId, FALSE)
              ELSE /\ call' = [call EXCEPT ![p].k = @ + 1]
                   /\ UNCHANGED <<pc, done>>
        \/ FailStatement(p, v2)
    /\ UNCHANGED <<nextId, clock, last>>

\* The transaction function returns an error before its next statement (the
\* statement fails, the context is cancelled, the engine picks the
\* transaction as a deadlock victim): ROLLBACK, and the call returns the error.
Abort(p) ==
    /\ pc[p] \in {"create", "update", "delete"}
    /\ delta' = [delta EXCEPT ![p] = NoDelta]
    /\ Finish(p, NoId, TRUE)
    /\ UNCHANGED <<issues, scopes, links, edges, nextId, clock, last>>

\* Stores the single caller can have produced before the callers start.
Seed1 == createNewIssueInTx(EmptyDB, ReportA, 1, MaxClock, MaxClock)

Seed2 ==
    insertRelation(
        insertRelation(createNewIssueInTx(Seed1, ReportB, 2, MaxClock, MaxClock), 1, 2), 2, 2)

Seeds == { [db |-> EmptyDB, ids |-> 0], [db |-> Seed1, ids |-> 1], [db |-> Seed2, ids |-> 2] }

ConcReports == {ReportA, ReportA2}

InitConc ==
    /\ \E s \in Seeds :
        /\ issues = s.db.issues
        /\ scopes = s.db.scopes
        /\ links = s.db.links
        /\ edges = s.db.edges
        /\ nextId = s.ids
    /\ clock = MaxClock
    /\ last = NoCall
    /\ pc = [p \in Procs |-> "idle"]
    /\ call = [p \in Procs |-> NoRun]
    /\ delta = [p \in Procs |-> NoDelta]
    /\ done = [p \in Procs |-> <<>>]

NextConc ==
    \E p \in Procs :
        \/ \E req \in ConcReports : CouFind(p, req)
        \/ CouCreate(p)
        \/ CouUpdate(p)
        \/ CouReload(p)
        \/ \E id \in Ids : DelFind(p, id)
        \/ DelStmt(p)
        \/ Abort(p)

SpecConc == InitConc /\ [][NextConc]_vars

\* CreateOrUpdate: the FindByID that reloads the issue after the COMMIT
\* returns an error (the query fails or the context is cancelled), and
\* CreateOrUpdate returns it.
CouReloadFails(p) ==
    /\ pc[p] = "reload"
    /\ Finish(p, NoId, TRUE)
    /\ UNCHANGED <<issues, scopes, links, edges, nextId, clock, last, delta>>

\* The callers of SpecConc, with every step of a call able to fail.
NextFail ==
    \/ NextConc
    \/ \E p \in Procs : CouReloadFails(p)

SpecFail == InitConc /\ [][NextFail]_vars

----------------------------------------------------------------------------
(* Relations between issues, several callers: AddRelatedIssue is four       *)
(* statements outside any transaction, RemoveRelatedIssue is one.           *)

\* AddRelatedIssue: FindByID of the source
RelFindSource(p, s, t) ==
    /\ CanStart(p)
    /\ call' = [call EXCEPT ![p] =
                  [op |-> "AddRelatedIssue", arg |-> <<s, t>>, existing |-> FindByID(DB, s), k |-> 0]]
    /\ pc' = [pc EXCEPT ![p] = "relTarget"]
    /\ UNCHANGED <<issues, scopes, links, edges, nextId, clock, last, delta, done>>

\* AddRelatedIssue: FindByID of the target, and the error when one is missing
RelFindTarget(p) ==
    /\ pc[p] = "relTarget"
    /\ IF call[p].existing = NoIssue \/ FindByID(DB, call[p].arg[2]) = NoIssue
       THEN Finish(p, NoId, TRUE)
       ELSE /\ pc' = [pc EXCEPT ![p] = "relCheck"]
            /\ UNCHANGED <<call, done>>
    /\ UNCHANGED <<issues, scopes, links, edges, nextId, clock, last, delta>>

\* AddRelatedIssue: the lookup of the relation in both directions
RelCheck(p) ==
    /\ pc[p] = "relCheck"
    /\ IF RelationRows(DB, call[p].arg[1], call[p].arg[2]) # {}
       THEN Finish(p, NoId, TRUE)
       ELSE /\ pc' = [pc EXCEPT ![p] = "relInsert"]
            /\ UNCHANGED <<call, done>>
    /\ UNCHANGED <<issues, scopes, links, edges, nextId, clock, last, delta>>

\* AddRelatedIssue: Create(&relation)
RelInsert(p) ==
    /\ pc[p] = "relInsert"
    /\ LET v2 == insertRelation(DB, call[p].arg[1], call[p].arg[2]) IN
        \/ /\ RunStatement(p, v2, TRUE)
           /\ Finish(p, NoId, FALSE)
        \/ FailStatement(p, v2)
    /\ UNCHANGED <<nextId, clock, last>>

\* RemoveRelatedIssue: the DELETE, and the error when it affects no row
RelRemove(p, s, t) ==
    /\ CanStart(p)
    /\ SetDB(deleteRelation(DB, s, t))
    /\ done' = [done EXCEPT ![p] =
                  Append(@, Returned("RemoveRelatedIssue", <<s, t>>, NoId, RelationRows(DB, s, t) = {}))]
    /\ UNCHANGED <<nextId, clock, last, pc, call, delta>>

\* Two issues without a relation, and with the relation 1 -> 2.
SeedPair == createNewIssueInTx(Seed1, ReportB, 2, MaxClock, MaxClock)

RelateSeeds == {SeedPair, insertRelation(SeedPair, 1, 2)}

InitRelate ==
    /\ \E s \in RelateSeeds :
        /\ issues = s.issues
        /\ scopes = s.scopes
        /\ links = s.links
        /\ edges = s.edges
    /\ nextId = 2
    /\ clock = MaxClock
    /\ last = NoCall
    /\ pc = [p \in Procs |-> "idle"]
    /\ call = [p \in Procs |-> NoRun]
    /\ delta = [p \in Procs |-> NoDelta]
    /\ done = [p \in Procs |-> <<>>]

NextRelate ==
    \E p \in Procs :
        \/ \E s, t \in 1..2 : RelFindSource(p, s, t)
        \/ RelFindTarget(p)
        \/ RelCheck(p)
        \/ RelInsert(p)
        \/ \E s, t \in 1..2 : RelRemove(p, s, t)

SpecRelate == InitRelate /\ [][NextRelate]_vars

----------------------------------------------------------------------------
(* Bulk resolution, several callers: ResolveByScope is two statements on    *)
(* i.db, the Pluck of the ids and the UPDATE of those ids.                  *)

\* ResolveByScope: now := time.Now(), the Pluck of the ids, and the return
\* of 0 when there is none
ResSelect(p, rt, rn, ns) ==
    \E now \in clock..MaxClock :
        LET ids == ResolveIds(DB, rt, rn, ns)
            run == [op |-> "ResolveByScope",
                    arg |-> [scope |-> <<rt, rn, ns>>, ids |-> ids, now |-> now],
                    existing |-> NoIssue, k |-> 0]
        IN  /\ CanStart(p)
            /\ clock' = now
            /\ IF ids = {}
               THEN /\ done' = [done EXCEPT ![p] = Append(@, Returned(run.op, run.arg, 0, FALSE))]
                    /\ UNCHANGED <<pc, call>>
               ELSE /\ call' = [call EXCEPT ![p] = run]
                    /\ pc' = [pc EXCEPT ![p] = "resolve"]
                    /\ UNCHANGED done
            /\ UNCHANGED <<issues, scopes, links, edges, nextId, last, delta>>

\* ResolveByScope: the UPDATE of the plucked ids; the call returns RowsAffected
ResUpdate(p) ==
    /\ pc[p] = "resolve"
    /\ RunStatement(p, ResolveUpdate(DB, call[p].arg.ids, call[p].arg.now), TRUE)
    /\ Finish(p, Cardinality(call[p].arg.ids \cap DOMAIN issues), FALSE)
    /\ UNCHANGED <<nextId, clock, last>>

\* Two ACTIVE issues of namespace a on the scope component/x.
SeedScope == createNewIssueInTx(createNewIssueInTx(EmptyDB, ReportA, 1, 1, 1), ReportTest, 2, 1, 1)

InitResolve ==
    /\ issues = SeedScope.issues
    /\ scopes = SeedScope.scopes
    /\ links = SeedScope.links
    /\ edges = SeedScope.edges
    /\ nextId = 2
    /\ clock = 1
    /\ last = NoCall
    /\ pc = [p \in Procs |-> "idle"]
    /\ call = [p \in Procs |-> NoRun]
    /\ delta = [p \in Procs |-> NoDelta]
    /\ done = [p \in Procs |-> <<>>]

NextResolve ==
    \E p \in Procs :
        \/ \E a \in ScopeArgs : ResSelect(p, a[1], a[2], a[3])
        \/ ResUpdate(p)
        \/ \E id \in Ids : DelFind(p, id)
        \/ DelStmt(p)
        \/ Abort(p)

SpecResolve == InitResolve /\ [][NextResolve]_vars

----------------------------------------------------------------------------
(* Updates of a stored issue: one caller, a store that already holds an     *)
(* issue, and update payloads that supply one field or a few at a time.     *)

ReportResolved ==
    Payload("t1", "d1", "major", "test", "a", Scope("component", "x", ""), <<Link1>>, RESOLVED, NoTime)

UpdateReports == {ReportA2, ReportResolved}

OnlyTitle == Payload("t2", "", "", "", "", NoScope, <<>>, "", NoTime)
OnlyDescription == Payload("", "d2", "", "", "", NoScope, <<>>, "", NoTime)
OnlySeverity == Payload("", "", "minor", "", "", NoScope, <<>>, "", NoTime)
OnlyIssueType == Payload("", "", "", "test", "", NoScope, <<>>, "", NoTime)
OnlyNamespace == Payload("", "", "", "", "b", NoScope, <<>>, "", NoTime)
OnlyLinks == Payload("", "", "", "", "", NoScope, <<Link2, Link2>>, "", NoTime)
OnlyScopeName == Payload("", "", "", "", "", Scope("", "y", ""), <<>>, "", NoTime)
OnlyResolvedAt == Payload("", "", "", "", "", NoScope, <<>>, "", 1)
Resolve == Payload("", "", "", "", "", NoScope, <<>>, RESOLVED, NoTime)
ResolveAt == Payload("", "", "", "", "", NoScope, <<>>, RESOLVED, 1)
Reopen == Payload("", "", "", "", "", NoScope, <<>>, ACTIVE, NoTime)

UpdateReqs ==
    { OnlyTitle, OnlyDescription, OnlySeverity, OnlyIssueType, OnlyNamespace, OnlyLinks,
      OnlyScopeName, OnlyResolvedAt, Resolve, ResolveAt, Reopen }

\* The issue the updates are addressed to.
UpdateIds == {1}

\* The store after one report, stored at time 1.
SeedUpdate == createNewIssueInTx(EmptyDB, ReportA, 1, 1, 1)

InitUpdate ==
    /\ issues = SeedUpdate.issues
    /\ scopes = SeedUpdate.scopes
    /\ links = SeedUpdate.links
    /\ edges = SeedUpdate.edges
    /\ nextId = 1
    /\ clock = MaxClock
    /\ last = NoCall
    /\ pc = [p \in Procs |-> "idle"]
    /\ call = [p \in Procs |-> NoRun]
    /\ delta = [p \in Procs |-> NoDelta]
    /\ done = [p \in Procs |-> <<>>]

NextUpdate ==
    \/ \E id \in UpdateIds, req \in UpdateReqs : Update(id, req)
    \/ \E req \in UpdateReports : CreateOrUpdate(req)

SpecUpdate == InitUpdate /\ [][NextUpdate]_vars

----------------------------------------------------------------------------
(* Reads: FindByID and FindAll called by one caller between reports.        *)

\* The characters of the titles, descriptions and search texts in use.
Chars(s) ==
    CASE s = "" -> <<>>
      [] s = "t1" -> <<"t", "1">>
      [] s = "t2" -> <<"t", "2">>
      [] s = "d1" -> <<"d", "1">>
      [] s = "T_" -> <<"T", "_">>
      [] s = "T" -> <<"T">>
      [] s = "t" -> <<"t">>
      [] s = "D" -> <<"D">>
      [] s = "1" -> <<"1">>
      [] s = "2" -> <<"2">>
      [] s = "_" -> <<"_">>
      [] s = "t9" -> <<"t", "9">>

\* LOWER() of SQL.
LowerChar(c) == CASE c = "T" -> "t" [] c = "D" -> "d" [] OTHER -> c

Lower(cs) == [k \in 1..Len(cs) |-> LowerChar(cs[k])]

\* s LIKE p of SQL: % matches any run of characters, _ any one character.
RECURSIVE Like(_, _)
Like(s, p) ==
    IF p = <<>> THEN s = <<>>
    ELSE IF Head(p) = "%" THEN Like(s, Tail(p)) \/ (s # <<>> /\ Like(Tail(s), p))
    ELSE /\ s # <<>>
         /\ Head(p) = "_" \/ Head(p) = Head(s)
         /\ Like(Tail(s), Tail(p))

\* searchPattern := "%" + filters.Search + "%"
SearchPattern(search) == <<"%">> \o Chars(search) \o <<"%">>

\* IssueQueryFilters; "" stands for an empty string and for a nil pointer.
Filters(ns, sev, ty, st, rt, rn, search, limit, offset) ==
    [namespace |-> ns, severity |-> sev, issueType |-> ty, state |-> st,
     resourceType |-> rt, resourceName |-> rn, search |-> search,
     limit |-> limit, offset |-> offset]

\* The WHERE clauses (and the JOIN) that FindAll stacks on the query.
FindAllRows(d, f) ==
    { i \in DOMAIN d.issues :
        /\ f.namespace # "" => d.issues[i].namespace = f.namespace
        /\ f.severity # "" => d.issues[i].severity = f.severity
        /\ f.issueType # "" => d.issues[i].issue_type = f.issueType
        /\ f.state # "" => d.issues[i].state = f.state
        /\ (f.resourceType # "" \/ f.resourceName # "")
              => /\ d.issues[i].scope_id \in DOMAIN d.scopes
                 /\ f.resourceType # ""
                      => d.scopes[d.issues[i].scope_id].resource_type = f.resourceType
                 /\ f.resourceName # ""
                      => d.scopes[d.issues[i].scope_id].resource_name = f.resourceName
        /\ f.search # ""
              => \/ Like(Lower(Chars(d.issues[i].title)), Lower(SearchPattern(f.search)))
                 \/ Like(Lower(Chars(d.issues[i].description)), Lower(SearchPattern(f.search))) }

\* A loaded issue with its preloaded associations.
Preload(d, id) ==
    [id |-> id, issue |-> d.issues[id],
     scope |-> d.scopes[d.issues[id].scope_id],
     links |-> [l \in {x \in DOMAIN d.links : x.issue_id = id} |-> d.links[l]],
     relatedFrom |-> {e.target_id : e \in {x \in BagToSet(d.edges) : x.source_id = id}},
     relatedTo |-> {e.source_id : e \in {x \in BagToSet(d.edges) : x.target_id = id}}]

\* Variant of OrderedRows: ORDER BY detected_at ascending.
OrderedRowsAsc(d, ids) ==
    { ord \in [1..Cardinality(ids) -> ids] :
        /\ \A j, k \in 1..Cardinality(ids) : j # k => ord[j] # ord[k]
        /\ \A j, k \in 1..Cardinality(ids) :
              j < k => d.issues[ord[j]].detected_at <= d.issues[ord[k]].detected_at }

\* ORDER BY detected_at DESC: every order of the rows that the clause
\* allows (rows with equal detected_at come in any order).
OrderedRows(d, ids) ==
    { ord \in [1..Cardinality(ids) -> ids] :
        /\ \A j, k \in 1..Cardinality(ids) : j # k => ord[j] # ord[k]
        /\ \A j, k \in 1..Cardinality(ids) :
              j < k => d.issues[ord[j]].detected_at >= d.issues[ord[k]].detected_at }

DefaultLimit == 50

\* OFFSET and LIMIT applied to the ordered rows.
PageOf(ord, limit, offset) ==
    SubSeq(ord, offset + 1, Min({Len(ord), offset + (IF limit = 0 THEN DefaultLimit ELSE limit)}))

FindAll(f) ==
    /\ \E ord \in OrderedRows(DB, FindAllRows(DB, f)) :
          last' = Returned("FindAll", f,
                           [issues |-> [k \in DOMAIN PageOf(ord, f.limit, f.offset) |->
                                           Preload(DB, PageOf(ord, f.limit, f.offset)[k])],
                            total |-> Cardinality(FindAllRows(DB, f))],
                           FALSE)
    /\ UNCHANGED <<issues, scopes, links, edges, nextId, clock>>
    /\ ConcIdle

\* Variant of FindByIDCall: a missing issue is returned as an error.
FindByIDCallNotFoundIsError(id) ==
    /\ last' = IF FindByID(DB, id) = NoIssue
               THEN Returned("FindByID", id, NoIssue, TRUE)
               ELSE Returned("FindByID", id, Preload(DB, id), FALSE)
    /\ UNCHANGED <<issues, scopes, links, edges, nextId, clock>>
    /\ ConcIdle

\* A call of FindByID by a client of the repository.
FindByIDCall(id) ==
    /\ last' = IF FindByID(DB, id) = NoIssue
               THEN Returned("FindByID", id, NoIssue, FALSE)
               ELSE Returned("FindByID", id, Preload(DB, id), FALSE)
    /\ UNCHANGED <<issues, scopes, links, edges, nextId, clock>>
    /\ ConcIdle

\* A report with another severity, another scope and a title that has a
\* capital letter and an underscore.
ReportRelease ==
    Payload("T_", "d1", "critical", "release", "b", Scope("service", "y", ""), <<Link2>>, "", NoTime)

ReadReports == {ReportA, ReportA2, ReportResolved, ReportRelease}

\* Filters without pagination, and a filter with limit and offset.
By(ns, sev, ty, st, rt, rn, search) == Filters(ns, sev, ty, st, rt, rn, search, 0, 0)

Paged(f, limit, offset) == [f EXCEPT !.limit = limit, !.offset = offset]

NoFilter == By("", "", "", "", "", "", "")

FilterSet ==
    { NoFilter,
      By("a", "", "", "", "", "", ""), By("", "critical", "", "", "", "", ""),
      By("", "", "test", "", "", "", ""), By("", "", "", RESOLVED, "", "", ""),
      By("", "", "", "", "service", "", ""), By("", "", "", "", "", "x", ""),
      By("", "", "", "", "", "", "T"), By("", "", "", "", "", "", "D"),
      By("", "", "", "", "", "", "1"), By("", "", "", "", "", "", "2"),
      By("", "", "", "", "", "", "_"), By("", "", "", "", "", "", "t9"),
      By("a", "major", "", "", "", "", ""), By("a", "", "", ACTIVE, "", "", "2"),
      By("b", "", "", "", "", "", "T"), By("", "", "test", ACTIVE, "", "", ""),
      By("", "", "", "", "component", "x", ""), By("b", "", "", "", "component", "", ""),
      By("a", "major", "build", ACTIVE, "component", "x", "t") } \cup
    { Paged(f, n, k) : f \in {NoFilter, By("a", "", "", "", "", "", "")},
                       n \in 0..MaxIds, k \in 0..MaxIds + 1 }

InitRead == Init

NextRead ==
    \/ \E req \in ReadReports : CreateOrUpdate(req)
    \/ \E f \in FilterSet : FindAll(f)
    \/ \E id \in Ids : FindByIDCall(id)

SpecRead == InitRead /\ [][NextRead]_vars

----------------------------------------------------------------------------
(* Duplicate lookups: one caller that reports issues, resolves them by      *)
(* scope and asks for the duplicate of a report.                            *)

\* FindDuplicate: the lookup in a transaction of its own; nil when no row is
\* selected.
FindDuplicate(req) ==
    /\ last' = Returned("FindDuplicate", req, findDuplicateInTx(DB, req).id, FALSE)
    /\ UNCHANGED <<issues, scopes, links, edges, nextId, clock>>
    /\ ConcIdle

DedupReports == {ReportA, ReportOtherNs, ReportResolved, ReportB}

InitDedup == Init

NextDedup ==
    \/ \E req \in DedupReports : CreateOrUpdate(req)
    \/ \E req \in DedupReports : Create(req)
    \/ \E req \in DedupReports : FindDuplicate(req)
    \/ \E a \in ScopeArgs : ResolveByScope(a[1], a[2], a[3])

SpecDedup == InitDedup /\ [][NextDedup]_vars

----------------------------------------------------------------------------
(* Pipeline webhooks: the handlers shape a payload and call CreateOrUpdate  *)
(* or ResolveByScope through the issue service.                             *)

\* PipelineFailureRequest and PipelineSuccessRequest bodies.
FailureBody(name, ns, sev, reason, run, url) ==
    [pipelineName |-> name, namespace |-> ns, severity |-> sev,
     failureReason |-> reason, runId |-> run, logsUrl |-> url]

SuccessBody(name, ns) == [pipelineName |-> name, namespace |-> ns]

FailureRequests ==
    { FailureBody("p", "a", "", "r1", "run1", ""),
      FailureBody("p", "a", "critical", "r2", "", "u1"),
      FailureBody("q", "a", "", "r1", "", ""),
      FailureBody("p", "b", "", "r1", "run1", ""),
      FailureBody("", "a", "", "r1", "run1", ""),
      FailureBody("p", "a", "", "", "run1", "") }

SuccessRequests ==
    { SuccessBody("p", "a"), SuccessBody("q", "a"), SuccessBody("p", "b"), SuccessBody("p", "") }

\* A report of another type on the scope of pipeline p, sent to the issues API.
ReportOnPipeline ==
    Payload("t1", "d1", "major", "build", "a", Scope("pipelinerun", "p", ""), <<>>, "", NoTime)

\* ShouldBindJSON: the fields tagged binding:"required" are not empty.
BindsFailure(req) == req.pipelineName # "" /\ req.namespace # "" /\ req.failureReason # ""

BindsSuccess(req) == req.pipelineName # "" /\ req.namespace # ""

\* The logs link: logsUrl, or the default cluster URL and logs endpoint with runId.
LogsURL(req) ==
    IF req.logsUrl = "" THEN "https://konflux.dev" \o "/logs/pipelineruns/" \o req.runId
    ELSE req.logsUrl

\* Variant of FailureIssueData: the scope names the run, not the pipeline.
FailureIssueDataPerRun(req) ==
    Payload("Pipeline run failed: " \o req.pipelineName,
            "The pipeline run " \o req.pipelineName \o " failed with reason: " \o req.failureReason,
            IF req.severity = "" THEN "major" ELSE req.severity,
            "pipeline", req.namespace,
            Scope("pipelinerun", req.runId, req.namespace),
            << [title |-> "Pipeline Run Logs", url |-> LogsURL(req)] >>, "", NoTime)

\* issueData of PipelineFailure.
FailureIssueData(req) ==
    Payload("Pipeline run failed: " \o req.pipelineName,
            "The pipeline run " \o req.pipelineName \o " failed with reason: " \o req.failureReason,
            IF req.severity = "" THEN "major" ELSE req.severity,
            "pipeline", req.namespace,
            Scope("pipelinerun", req.pipelineName, req.namespace),
            << [title |-> "Pipeline Run Logs", url |-> LogsURL(req)] >>, "", NoTime)

\* The handler, recorded as call op with argument arg.
HandlePipelineFailure(op, arg, req) ==
    IF ~BindsFailure(req)
    THEN /\ last' = Returned(op, arg, [status |-> 400, issue |-> NoId], TRUE)
         /\ UNCHANGED <<issues, scopes, links, edges, nextId, clock>>
         /\ ConcIdle
    ELSE \E now \in clock..MaxClock, now2 \in clock..MaxClock :
            /\ now <= now2
            /\ LET r == UpsertTx(DB, FailureIssueData(req), TRUE, nextId + 1, now, now2) IN
                /\ r.created => nextId < MaxIds
                /\ SetDB(r.tx.db)
                /\ nextId' = IF r.created THEN nextId + 1 ELSE nextId
                /\ clock' = now2
                /\ last' = IF r.tx.ok
                           THEN Returned(op, arg,
                                         [status |-> 201, issue |-> FindByID(r.tx.db, r.issue).id], FALSE)
                           ELSE Returned(op, arg, [status |-> 500, issue |-> NoId], TRUE)
            /\ ConcIdle

PipelineFailure(req) == HandlePipelineFailure("PipelineFailure", req, req)

\* Variant of SuccessScope: the resource type of the issue type, not of the scope.
SuccessScopeOfIssueType(req) == <<"pipeline", req.pipelineName, req.namespace>>

\* The arguments PipelineSuccess passes to ResolveIssuesByScope.
SuccessScope(req) == <<"pipelinerun", req.pipelineName, req.namespace>>

PipelineSuccess(req) ==
    IF ~BindsSuccess(req)
    THEN /\ last' = Returned("PipelineSuccess", req, [status |-> 400, resolved |-> 0], TRUE)
         /\ UNCHANGED <<issues, scopes, links, edges, nextId, clock>>
         /\ ConcIdle
    ELSE \E now \in clock..MaxClock :
            LET a == SuccessScope(req)
                ids == ResolveIds(DB, a[1], a[2], a[3])
            IN  /\ SetDB(IF ids = {} THEN DB ELSE ResolveUpdate(DB, ids, now))
                /\ last' = Returned("PipelineSuccess", req,
                                    [status |-> 200, resolved |-> Cardinality(ids)], FALSE)
                /\ clock' = now
                /\ UNCHANGED nextId
                /\ ConcIdle

InitWebhook == Init

NextWebhook ==
    \/ \E req \in FailureRequests : PipelineFailure(req)
    \/ \E req \in SuccessRequests : PipelineSuccess(req)
    \/ CreateOrUpdate(ReportOnPipeline)
    \/ \E id \in Ids : Delete(id)

SpecWebhook == InitWebhook /\ [][NextWebhook]_vars

----------------------------------------------------------------------------
(* The HTTP route of the pipeline-failure webhook: the middleware that      *)
(* SetupRouter installs in front of the handler, and the Authentication     *)
(* middleware of the same package.                                          *)

\* Authorization header values.
Headers == {"", "Bearer tok", "Basic tok", "Bearer tok x"}

\* strings.Split(header, " ")
SplitSpace(header) ==
    CASE header = "" -> <<"">>
      [] header = "Bearer tok" -> <<"Bearer", "tok">>
      [] header = "Basic tok" -> <<"Basic", "tok">>
      [] header = "Bearer tok x" -> <<"Bearer", "tok", "x">>

extractBearerToken(header) ==
    IF header = "" THEN [token |-> "", err |-> TRUE]
    ELSE IF Len(SplitSpace(header)) # 2 THEN [token |-> "", err |-> TRUE]
    ELSE [token |-> SplitSpace(header)[2], err |-> FALSE]

\* What the gin context holds after a middleware, and whether it aborted.
Passed(type, user) == [abort |-> FALSE, status |-> 0, type |-> type, user |-> user]

Aborted(status) == [abort |-> TRUE, status |-> status, type |-> "", user |-> ""]

\* The Authentication middleware. cached is the cache entry of the token
\* ("none", "false" or "user"), review the answer of TokenReview ("error",
\* "no" or "yes").
Authentication(header, cached, review) ==
    IF extractBearerToken(header).err THEN Passed("publisher", "")
    ELSE IF cached = "false" THEN Aborted(401)
    ELSE IF cached = "user" THEN Passed("consumer", extractBearerToken(header).token)
    ELSE IF review = "error" THEN Aborted(500)
    ELSE IF review = "no" THEN Aborted(401)
    ELSE Passed("consumer", extractBearerToken(header).token)

\* The CheckNamespacessAccess middleware. client tells whether the checker
\* has a Kubernetes client, allowed the answer of the access review (of the
\* user in the context, or of the service's own account when there is none).
CheckNamespacessAccess(ctx, namespace, client, allowed) ==
    IF namespace = "" THEN Aborted(400)
    ELSE IF ~client THEN ctx
    ELSE IF ~allowed THEN Aborted(403)
    ELSE ctx

\* SetupRouter: router.Use and webhooksGroup.Use install Logger,
\* ErrorHandler, CORS, Recovery and CheckNamespacessAccess, and nowhere
\* Authentication.
AuthenticationInstalled == FALSE

\* The middleware in front of a webhook handler. checker tells whether
\* NewNamespaceChecker returned a checker.
RunMiddleware(r) ==
    LET ctx == IF AuthenticationInstalled
               THEN Authentication(r.header, r.cached, r.review)
               ELSE Passed("", "")
    IN  IF ctx.abort \/ ~r.checker THEN ctx
        ELSE CheckNamespacessAccess(ctx, r.query, r.client, r.allowed)

\* The cache holds what an earlier TokenReview of the token answered.
CacheStates(review) ==
    CASE review = "no" -> {"none", "false"}
      [] review = "yes" -> {"none", "user"}
      [] review = "error" -> {"none", "false", "user"}

\* Requests: header, namespace in the query string, body, and the answers
\* of the environment while the request is served.
HttpRequests ==
    { [header |-> h, query |-> q, body |-> b, cached |-> c, review |-> v,
       checker |-> k[1], client |-> k[2], allowed |-> k[3]] :
        h \in Headers, q \in {"", "a"},
        b \in {FailureBody("p", "a", "", "r1", "run1", ""), FailureBody("", "a", "", "r1", "", "")},
        c \in {"none", "false", "user"}, v \in {"error", "no", "yes"},
        k \in {<<FALSE, FALSE, FALSE>>, <<TRUE, FALSE, FALSE>>,
               <<TRUE, TRUE, FALSE>>, <<TRUE, TRUE, TRUE>>} }

\* POST /api/v1/webhooks/pipeline-failure
PostPipelineFailure(r) ==
    /\ r.cached \in CacheStates(r.review)
    /\ IF RunMiddleware(r).abort
       THEN /\ last' = Returned("POST pipeline-failure", r,
                                [status |-> RunMiddleware(r).status, issue |-> NoId], TRUE)
            /\ UNCHANGED <<issues, scopes, links, edges, nextId, clock>>
            /\ ConcIdle
       ELSE HandlePipelineFailure("POST pipeline-failure", r, r.body)

InitHttp == InitGraph

NextHttp ==
    \/ \E r \in HttpRequests : PostPipelineFailure(r)
    \/ \E req \in SuccessRequests : PipelineSuccess(req)

SpecHttp == InitHttp /\ [][NextHttp]_vars

----------------------------------------------------------------------------
(* All four writers of links and edges, several callers: AddRelatedIssue,   *)
(* CreateOrUpdate, Update and Delete, statement by statement.               *)

\* Update: FindByID outside the transaction, and the error when it finds
\* nothing; the transaction then runs updateIssueInTx on the issue it loaded.
UpdFind(p, id, req) ==
    /\ CanStart(p)
    /\ IF FindByID(DB, id) = NoIssue
       THEN /\ done' = [done EXCEPT ![p] =
                          Append(@, Returned("Update", [id |-> id, req |-> req], NoId, TRUE))]
            /\ UNCHANGED <<pc, call>>
       ELSE /\ call' = [call EXCEPT ![p] =
                          [op |-> "Update", arg |-> req, existing |-> FindByID(DB, id), k |-> 0]]
            /\ pc' = [pc EXCEPT ![p] = "update"]
            /\ UNCHANGED done
    /\ UNCHANGED <<issues, scopes, links, edges, nextId, clock, last, delta>>

\* The updates of the callers: one with links, one with a scope.
IntegrityUpdates == {OnlyLinks, OnlyScopeName}

\* One issue, and two issues without a relation.
IntegritySeeds == { [db |-> Seed1, ids |-> 1], [db |-> SeedPair, ids |-> 2] }

InitIntegrity ==
    /\ \E s \in IntegritySeeds :
        /\ issues = s.db.issues
        /\ scopes = s.db.scopes
        /\ links = s.db.links
        /\ edges = s.db.edges
        /\ nextId = s.ids
    /\ clock = MaxClock
    /\ last = NoCall
    /\ pc = [p \in Procs |-> "idle"]
    /\ call = [p \in Procs |-> NoRun]
    /\ delta = [p \in Procs |-> NoDelta]
    /\ done = [p \in Procs |-> <<>>]

NextIntegrity ==
    \E p \in Procs :
        \/ \E s \in Ids, t \in Ids : RelFindSource(p, s, t)
        \/ RelFindTarget(p)
        \/ RelCheck(p)
        \/ RelInsert(p)
        \/ \E req \in ConcReports : CouFind(p, req)
        \/ CouCreate(p)
        \/ \E id \in Ids, req \in IntegrityUpdates : UpdFind(p, id, req)
        \/ CouUpdate(p)
        \/ CouReload(p)
        \/ \E id \in Ids : DelFind(p, id)
        \/ DelStmt(p)
        \/ Abort(p)

SpecIntegrity == InitIntegrity /\ [][NextIntegrity]_vars

----------------------------------------------------------------------------
(* The Impersonation middleware, a function of the request, the gin context *)
(* and the answers of the SubjectAccessReview API.                          *)

\* Answers of SubjectAccessReviews().Create: an error, or a review whose
\* Status.Allowed is false or true.
ReviewAnswers == {"error", "denied", "allowed"}

\* The resource attributes of the impersonation headers in use.
ImpAttributes == {"users/alice", "groups/g", "uids/u1", "userextras/e"}

\* Requests: AUTH_IMPERSONATE is "true" (flag), the type and the user that
\* Authentication left in the context ("" when it left none), the headers
\* Impersonate-User, Impersonate-Group, Impersonate-Uid and
\* Impersonate-Extra-*, and the answer of the review of each attribute.
ImpersonationRequests ==
    { [flag |-> f, type |-> ty, ctxUser |-> cu, user |-> u, groups |-> g, uid |-> i,
       extras |-> e, reviews |-> rv] :
        f \in BOOLEAN, ty \in {"publisher", "consumer"}, cu \in {"", "bob"},
        u \in {"", "alice"}, g \in {<<>>, <<"g">>}, i \in {"", "u1"}, e \in {<<>>, <<"e">>},
        rv \in [ImpAttributes -> ReviewAnswers] }

\* The attributes in the order of the checks: user, groups, uid, extras.
newImpersonatedData(r) ==
    LET atts == (IF r.user # "" THEN <<"users/" \o r.user>> ELSE <<>>)
                    \o [k \in DOMAIN r.groups |-> "groups/" \o r.groups[k]]
                    \o (IF r.uid # "" THEN <<"uids/" \o r.uid>> ELSE <<>>)
                    \o [k \in DOMAIN r.extras |-> "userextras/" \o r.extras[k]]
    IN  IF r.user # "" THEN [err |-> "", resourceAttributes |-> atts, userInfo |-> r.user]
        ELSE IF atts # <<>> THEN [err |-> "header required", resourceAttributes |-> <<>>, userInfo |-> ""]
        ELSE [err |-> "ErrNoImpersonationData", resourceAttributes |-> <<>>, userInfo |-> ""]

\* The context after the middleware: its user, and the status of an abort.
ImpNext(user) == [abort |-> FALSE, status |-> 0, user |-> user]

ImpAbort(status, user) == [abort |-> TRUE, status |-> status, user |-> user]

\* The handler that Impersonation returns, applied to a request: the loop
\* over the attributes looks at the error of Create only.
Impersonation(r) ==
    LET imp == newImpersonatedData(r) IN
    IF ~r.flag \/ r.type = "publisher" THEN ImpNext(r.ctxUser)
    ELSE IF imp.err = "header required" THEN ImpAbort(400, r.ctxUser)
    ELSE IF imp.err = "ErrNoImpersonationData" THEN ImpNext(r.ctxUser)
    ELSE IF r.ctxUser = "" THEN ImpAbort(500, r.ctxUser)
    ELSE IF \E k \in DOMAIN imp.resourceAttributes : r.reviews[imp.resourceAttributes[k]] = "error"
         THEN ImpAbort(401, r.ctxUser)
    ELSE ImpNext(imp.userInfo)

\* A request arrives at the middleware.
InitImpersonation ==
    /\ \E r \in ImpersonationRequests : last = Returned("request", r, ImpNext(r.ctxUser), FALSE)
    /\ issues = <<>> /\ scopes = <<>> /\ links = EmptyBag /\ edges = EmptyBag
    /\ nextId = 0 /\ clock = 1
    /\ pc = [p \in Procs |-> "idle"]
    /\ call = [p \in Procs |-> NoRun]
    /\ delta = [p \in Procs |-> NoDelta]
    /\ done = [p \in Procs |-> <<>>]

\* The middleware runs on the request.
Impersonate ==
    /\ last.op = "request"
    /\ last' = Returned("Impersonation", last.arg, Impersonation(last.arg), Impersonation(last.arg).abort)
    /\ UNCHANGED <<issues, scopes, links, edges, nextId, clock>>
    /\ ConcIdle

NextImpersonation == Impersonate

SpecImpersonation == InitImpersonation /\ [][NextImpersonation]_vars

----------------------------------------------------------------------------
(* Configuration: GetEnvDurationOrDefault, a function of the environment    *)
(* variable and the default. Strings are sequences of characters and       *)
(* durations are counted in seconds.                                        *)

\* Longest value of the environment variable.
MaxEnvLen == 4

EnvChars == {"1", "5", "s", "m", "x"}

Digits == {"1", "5"}

DigitValue(c) == IF c = "1" THEN 1 ELSE 5

\* The values of the variable: not set, or a string (the empty one included).
EnvValues ==
    {[set |-> FALSE, s |-> <<>>]}
        \cup {[set |-> TRUE, s |-> x] : x \in UNION {[1..n -> EnvChars] : n \in 0..MaxEnvLen}}

\* os.Getenv: the empty string when the variable is not set.
Getenv(v) == IF v.set THEN v.s ELSE <<>>

\* The length of the longest prefix of s that consists of digits, and of
\* characters that are no digits.
RECURSIVE LeadingDigits(_)
LeadingDigits(s) ==
    IF s = <<>> \/ Head(s) \notin Digits THEN 0 ELSE 1 + LeadingDigits(Tail(s))

RECURSIVE LeadingUnit(_)
LeadingUnit(s) ==
    IF s = <<>> \/ Head(s) \in Digits THEN 0 ELSE 1 + LeadingUnit(Tail(s))

RECURSIVE Decimal(_, _)
Decimal(s, acc) == IF s = <<>> THEN acc ELSE Decimal(Tail(s), 10 * acc + DigitValue(Head(s)))

\* unitMap of package time, in seconds, for the units in use.
UnitSeconds(u) ==
    CASE u = <<"s">> -> 1
      [] u = <<"m">> -> 60
      [] OTHER -> 0

\* time.ParseDuration: a sequence of decimal numbers, each with a unit; on
\* an error the duration returned is 0.
RECURSIVE ParseFrom(_, _)
ParseFrom(s, acc) ==
    IF s = <<>> THEN [d |-> acc, ok |-> TRUE]
    ELSE LET n == LeadingDigits(s)
             rest == SubSeq(s, n + 1, Len(s))
             u == LeadingUnit(rest)
         IN  IF n = 0 \/ u = 0 \/ UnitSeconds(SubSeq(rest, 1, u)) = 0
             THEN [d |-> 0, ok |-> FALSE]
             ELSE ParseFrom(SubSeq(rest, u + 1, Len(rest)),
                            acc + Decimal(SubSeq(s, 1, n), 0) * UnitSeconds(SubSeq(rest, 1, u)))

ParseDuration(s) == IF s = <<>> THEN [d |-> 0, ok |-> FALSE] ELSE ParseFrom(s, 0)

\* The parsed value is returned when `err != nil`, the default otherwise.
GetEnvDurationOrDefault(v, defaultValue) ==
    IF Getenv(v) # <<>> /\ ~ParseDuration(Getenv(v)).ok
    THEN ParseDuration(Getenv(v)).d
    ELSE defaultValue

\* LoadConfig calls the function with defaults of 10, 30 and 60 seconds.
DefaultDurations == {10, 30, 60}

InitConfig ==
    /\ \E v \in EnvValues, dv \in DefaultDurations :
            last = Returned("env", [value |-> v, defaultValue |-> dv], 0, FALSE)
    /\ issues = <<>> /\ scopes = <<>> /\ links = EmptyBag /\ edges = EmptyBag
    /\ nextId = 0 /\ clock = 1
    /\ pc = [p \in Procs |-> "idle"]
    /\ call = [p \in Procs |-> NoRun]
    /\ delta = [p \in Procs |-> NoDelta]
    /\ done = [p \in Procs |-> <<>>]

\* LoadConfig reads one of its timeouts.
LoadDuration ==
    /\ last.op = "env"
    /\ last' = Returned("GetEnvDurationOrDefault", last.arg,
                        GetEnvDurationOrDefault(last.arg.value, last.arg.defaultValue), FALSE)
    /\ UNCHANGED <<issues, scopes, links, edges, nextId, clock>>
    /\ ConcIdle

NextConfig == LoadDuration

SpecConfig == InitConfig /\ [][NextConfig]_vars

----------------------------------------------------------------------------
(* Vocabulary of the properties *)

\* The dedup key of a stored issue and of a report:
\* (namespace, issue type, scope resource type, name, namespace).
IssueKey(d, i) ==
    <<d.issues[i].namespace, d.issues[i].issue_type,
      d.scopes[d.issues[i].scope_id].resource_type,
      d.scopes[d.issues[i].scope_id].resource_name,
      d.scopes[d.issues[i].scope_id].resource_namespace>>

ReportKey(req) ==
    <<req.namespace, req.issueType, req.scope.resourceType, req.scope.resourceName,
      IF req.scope.resourceNamespace = "" THEN req.namespace ELSE req.scope.resourceNamespace>>

IssuesWithKey(d, key) == {i \in DOMAIN d.issues : IssueKey(d, i) = key}

\* The issues that are ACTIVE in namespace ns with a scope (rt, rn).
ActiveMatching(d, rt, rn, ns) ==
    { i \in DOMAIN d.issues :
        /\ d.issues[i].state = ACTIVE
        /\ d.issues[i].namespace = ns
        /\ d.scopes[d.issues[i].scope_id].resource_type = rt
        /\ d.scopes[d.issues[i].scope_id].resource_name = rn }

LinksOf(d, id) == {l \in BagToSet(d.links) : l.issue_id = id}

EdgesOf(d, id) == {e \in BagToSet(d.edges) : e.source_id = id \/ e.target_id = id}

\* Every scope belongs to an issue, every issue has its scope, and every
\* link and edge refers to stored issues.
NoOrphans(d) ==
    /\ ConstraintsOk(d)
    /\ \A sid \in DOMAIN d.scopes : \E i \in DOMAIN d.issues : d.issues[i].scope_id = sid

\* The calls all callers have completed, for SpecConc.
AllDone == \A p \in Procs : pc[p] = "idle" /\ Len(done[p]) = 1

----------------------------------------------------------------------------
(* C1. Callers that run CreateOrUpdate concurrently with reports of one     *)
(* dedup key and that all return without error return the same issue id,   *)
(* and exactly one issue with that key is stored afterwards.                *)
C1_ConcurrentCallersConverge ==
    (/\ AllDone
     /\ \A p \in Procs : done[p][1].op = "CreateOrUpdate" /\ ~done[p][1].err
     /\ \A p, q \in Procs : ReportKey(done[p][1].arg) = ReportKey(done[q][1].arg))
    => /\ \A p, q \in Procs : done[p][1].ret = done[q][1].ret
       /\ \A p \in Procs : Cardinality(IssuesWithKey(DB, ReportKey(done[p][1].arg))) = 1

(* C2. In every state reachable by Create, CreateOrUpdate, Update,          *)
(* ResolveByScope and Delete calls, at most one issue exists per dedup key, *)
(* ACTIVE or RESOLVED.                                                      *)
C2_OneIssuePerDedupKey ==
    \A i, j \in DOMAIN issues : IssueKey(DB, i) = IssueKey(DB, j) => i = j

(* C3. When two CreateOrUpdate calls with reports of one dedup key follow   *)
(* one another, the second returns the issue id the first returned and the  *)
(* numbers of issue rows and of scope rows do not grow.                     *)
C3_SequentialSameKey ==
    [][(/\ last.op = "CreateOrUpdate" /\ ~last.err
        /\ last'.op = "CreateOrUpdate"
        /\ ReportKey(last'.arg) = ReportKey(last.arg))
       => /\ ~last'.err
          /\ last'.ret = last.ret
          /\ Cardinality(DOMAIN issues') = Cardinality(DOMAIN issues)
          /\ Cardinality(DOMAIN scopes') = Cardinality(DOMAIN scopes)]_vars

(* C4. A CreateOrUpdate whose report has the dedup key of a stored RESOLVED *)
(* issue returns that issue's id and leaves the issue ACTIVE (stated for    *)
(* the reports whose scope is in the issue's own namespace).                *)
C4_ReportReopensResolved ==
    [][\A i \in DOMAIN issues :
        (/\ last'.op = "CreateOrUpdate"
         /\ ReportKey(last'.arg)[5] = last'.arg.namespace
         /\ issues[i].state = RESOLVED
         /\ IssuesWithKey(DB, ReportKey(last'.arg)) = {i})
        => /\ ~last'.err
           /\ last'.ret = i
           /\ i \in DOMAIN issues'
           /\ issues'[i].state = ACTIVE]_vars

C7_DeleteRemovesIssueAndDependents ==
    [][(last'.op = "Delete" /\ ~last'.err)
       => /\ last'.arg \in DOMAIN issues
          /\ DOMAIN issues' = DOMAIN issues \ {last'.arg}
          /\ \A i \in DOMAIN issues' : issues'[i] = issues[i]
          /\ DOMAIN scopes' = DOMAIN scopes \ {issues[last'.arg].scope_id}
          /\ \A sid \in DOMAIN scopes' : scopes'[sid] = scopes[sid]
          /\ BagToSet(links') = BagToSet(links) \ LinksOf(DB, last'.arg)
          /\ \A l \in BagToSet(links') : CopiesIn(l, links') = CopiesIn(l, links)
          /\ BagToSet(edges') = BagToSet(edges) \ EdgesOf(DB, last'.arg)
          /\ \A e \in BagToSet(edges') : CopiesIn(e, edges') = CopiesIn(e, edges)]_vars

C7_Witness ==
    /\ last.op = "Delete"
    /\ ~last.err
    /\ DOMAIN issues # {}
    /\ DOMAIN scopes = {issues[i].scope_id : i \in DOMAIN issues}
    /\ links # EmptyBag
    /\ edges # EmptyBag

(* C8. Delete removes edges, then links, then the issue, then its scope,   *)
(* in one transaction: a Delete that fails or is aborted part-way changes   *)
(* nothing in the store, a Delete changes the store only by removing the    *)
(* issue with all its dependents at once, and no state of the store holds   *)
(* a scope without issue or a link or edge of a missing issue.              *)
C8_DeleteIsOrderedAndAtomic ==
    /\ []NoOrphans(DB)
    /\ [][\A p \in Procs :
            (pc[p] = "delete" /\ <<call[p], done[p]>>' # <<call[p], done[p]>>)
            => /\ (pc'[p] = "delete" \/ done'[p][Len(done'[p])].err)
                    => UNCHANGED <<issues, scopes, links, edges>>
               /\ (pc'[p] = "idle" /\ ~done'[p][Len(done'[p])].err)
                    => /\ call[p].arg \notin DOMAIN issues'
                       /\ call[p].existing.scope_id \notin DOMAIN scopes'
                       /\ LinksOf(DB', call[p].arg) = {}
                       /\ EdgesOf(DB', call[p].arg) = {}
               /\ (pc'[p] = "delete" /\ call[p].k = 0)
                    => delta'[p] = [delta[p] EXCEPT !.delEdges = delta'[p].delEdges]
               /\ (pc'[p] = "delete" /\ call[p].k = 1)
                    => delta'[p] = [delta[p] EXCEPT !.delLinks = delta'[p].delLinks]
               /\ (pc'[p] = "delete" /\ call[p].k = 2)
                    => delta'[p] = [delta[p] EXCEPT !.delIssues = delta'[p].delIssues]]_vars

C8_Witness ==
    \E p \in Procs :
        /\ pc[p] = "delete"
        /\ call[p].k = 3
        /\ call[p].arg \in DOMAIN issues
        /\ call[p].arg \notin DOMAIN View(p).issues
        /\ LinksOf(DB, call[p].arg) # {}
        /\ EdgesOf(DB, call[p].arg) # {}
        /\ LinksOf(View(p), call[p].arg) = {}

(* C9. Delete(id) for an id that matches no issue returns an error and     *)
(* leaves every relation of the store unchanged.                            *)
C9_DeleteOfMissingIssueFails ==
    [][(last'.op = "Delete" /\ last'.arg \notin DOMAIN issues)
       => last'.err /\ UNCHANGED <<issues, scopes, links, edges>>]_vars

C9_Witness ==
    /\ last.op = "Delete"
    /\ last.err
    /\ last.arg \notin DOMAIN issues
    /\ DOMAIN issues # {}
    /\ links # EmptyBag
    /\ edges # EmptyBag

(* C10. While the edge stored by a successful AddRelatedIssue(a, b) exists, *)
(* AddRelatedIssue(b, a) and AddRelatedIssue(a, b) fail with an error and   *)
(* insert no edge row.                                                      *)
C10_AddRelatedIssueRejectsBothDirections ==
    [][\A a, b \in Ids :
        (/\ last'.op = "AddRelatedIssue"
         /\ last'.arg \in {<<a, b>>, <<b, a>>}
         /\ [source_id |-> a, target_id |-> b] \in BagToSet(edges))
        => last'.err /\ edges' = edges]_vars

C10_Witness ==
    /\ last.op = "AddRelatedIssue"
    /\ last.err
    /\ last.arg = <<2, 1>>
    /\ {1, 2} \subseteq DOMAIN issues
    /\ BagToSet(edges) = {[source_id |-> 1, target_id |-> 2]}
    /\ CopiesIn([source_id |-> 1, target_id |-> 2], edges) = 1

(* C11. AddRelatedIssue(s, t) returns an error and inserts no edge when the *)
(* source issue, the target issue or both do not exist.                     *)
C11_AddRelatedIssueNeedsBothIssues ==
    [][(/\ last'.op = "AddRelatedIssue"
        /\ (last'.arg[1] \notin DOMAIN issues \/ last'.arg[2] \notin DOMAIN issues))
       => last'.err /\ UNCHANGED <<issues, scopes, links, edges>>]_vars

C11_Witness ==
    /\ last.op = "AddRelatedIssue"
    /\ last.err
    /\ last.arg[1] \in DOMAIN issues
    /\ last.arg[2] \notin DOMAIN issues
    /\ RelationRows(DB, last.arg[1], last.arg[2]) = {}
    /\ edges # EmptyBag

(* C12. RemoveRelatedIssue(s, t) deletes the edge between s and t in        *)
(* whichever direction it is stored and leaves all other edges and all      *)
(* other relations unchanged; when no edge exists between the pair in       *)
(* either direction it returns an error and changes nothing.                *)
C12_RemoveRelatedIssueEitherDirection ==
    [][last'.op = "RemoveRelatedIssue"
       => LET s == last'.arg[1]
              t == last'.arg[2]
              between == { e \in BagToSet(edges) :
                             <<e.source_id, e.target_id>> \in {<<s, t>>, <<t, s>>} }
          IN  /\ UNCHANGED <<issues, scopes, links>>
              /\ between = {} => (last'.err /\ edges' = edges)
              /\ between # {}
                   => /\ ~last'.err
                      /\ BagToSet(edges') = BagToSet(edges) \ between
                      /\ \A e \in BagToSet(edges') : CopiesIn(e, edges') = CopiesIn(e, edges)]_vars

C12_Witness ==
    /\ last.op = "RemoveRelatedIssue"
    /\ ~last.err
    /\ last.arg[1] # last.arg[2]
    /\ {last.arg[1], last.arg[2]} \subseteq DOMAIN issues
    /\ Cardinality(BagToSet(edges)) = 2

(* C13. A successful Update writes each of title, description, severity,    *)
(* issue type, namespace and state only when the payload supplies a         *)
(* non-empty value (and then writes that value), replaces the links only    *)
(* when the payload has links, writes each scope field only when supplied,  *)
(* leaves resolved-at alone when no state is supplied, and always sets      *)
(* updated-at to the time of the call.                                      *)
C13_UpdateIsSparse ==
    [][(last'.op = "Update" /\ ~last'.err)
       => LET id == last'.arg.id
              req == last'.arg.req
              old == issues[id]
              new == issues'[id]
              osc == scopes[old.scope_id]
              nsc == scopes'[old.scope_id]
          IN  /\ new.title = IF req.title # "" THEN req.title ELSE old.title
              /\ new.description = IF req.description # "" THEN req.description ELSE old.description
              /\ new.severity = IF req.severity # "" THEN req.severity ELSE old.severity
              /\ new.issue_type = IF req.issueType # "" THEN req.issueType ELSE old.issue_type
              /\ new.namespace = IF req.namespace # "" THEN req.namespace ELSE old.namespace
              /\ new.state = IF req.state # "" THEN req.state ELSE old.state
              /\ req.state = "" => new.resolved_at = old.resolved_at
              /\ new.updated_at = clock'
              /\ new.detected_at = old.detected_at /\ new.scope_id = old.scope_id
              /\ req.links = <<>> => links' = links
              /\ nsc.resource_type =
                    IF req.scope.resourceType # "" THEN req.scope.resourceType ELSE osc.resource_type
              /\ nsc.resource_name =
                    IF req.scope.resourceName # "" THEN req.scope.resourceName ELSE osc.resource_name
              /\ nsc.resource_namespace =
                    IF req.scope.resourceNamespace # ""
                    THEN req.scope.resourceNamespace ELSE osc.resource_namespace
              /\ \A i \in DOMAIN issues \ {id} : i \in DOMAIN issues' /\ issues'[i] = issues[i]
              /\ DOMAIN issues' = DOMAIN issues /\ edges' = edges]_vars

C13_Witness ==
    /\ last.op = "Update"
    /\ ~last.err
    /\ last.arg.req = OnlyTitle
    /\ issues[1].title = "t2"
    /\ issues[1].updated_at > issues[1].detected_at
    /\ issues[1].description = "d1" /\ issues[1].severity = "major"
    /\ issues[1].state = RESOLVED /\ issues[1].resolved_at = 1
    /\ scopes[1].resource_name = "y"
    /\ LinksOf(DB, 1) = {[title |-> "log", url |-> "u1", issue_id |-> 1]}

(* C14. An update that supplies links (Update, or CreateOrUpdate for a      *)
(* report whose issue exists) leaves the issue with exactly the supplied    *)
(* links, each as often as it was supplied: every link stored before for    *)
(* that issue is gone, and the links of the other issues are unchanged.     *)
C14_SuppliedLinksReplaceStoredLinks ==
    [][\A id \in DOMAIN issues :
        \A req \in UpdateReqs \cup UpdateReports :
          (/\ ~last'.err
           /\ req.links # <<>>
           /\ \/ last'.op = "Update" /\ last'.arg = [id |-> id, req |-> req]
              \/ last'.op = "CreateOrUpdate" /\ last'.arg = req /\ last'.ret = id)
          => \A l \in BagToSet(links) \cup BagToSet(links') :
                CopiesIn(l, links') =
                    IF l.issue_id = id
                    THEN Cardinality({k \in 1..Len(req.links) :
                                        req.links[k] = [title |-> l.title, url |-> l.url]})
                    ELSE CopiesIn(l, links)]_vars

C14_Witness ==
    /\ last.op = "Update"
    /\ ~last.err
    /\ last.arg.req = OnlyLinks
    /\ LinksOf(DB, 1) = {[title |-> "log", url |-> "u2", issue_id |-> 1]}
    /\ CopiesIn([title |-> "log", url |-> "u2", issue_id |-> 1], links) = 2
    /\ LinksOf(DB, 2) = {[title |-> "log", url |-> "u1", issue_id |-> 2]}

(* C15. When an update moves an issue from a state other than RESOLVED to   *)
(* RESOLVED, resolved-at becomes the resolution time the payload supplies,  *)
(* and the time of the call when the payload supplies none.                 *)
C15_ResolvedAtOnTransition ==
    [][(/\ last'.op = "Update"
        /\ ~last'.err
        /\ last'.arg.req.state = RESOLVED
        /\ issues[last'.arg.id].state # RESOLVED)
       => issues'[last'.arg.id].resolved_at =
             IF last'.arg.req.resolvedAt # NoTime THEN last'.arg.req.resolvedAt ELSE clock']_vars

(* C16. Every RESOLVED issue has a resolved-at, an issue created directly   *)
(* in state RESOLVED included.                                              *)
C16_ResolvedIssueHasResolvedAt ==
    \A i \in DOMAIN issues : issues[i].state = RESOLVED => issues[i].resolved_at # NoTime

(* C18. FindByID(id) returns no issue and no error when no issue has that   *)
(* id, returns the issue with its scope and its links when one has, and     *)
(* never modifies the store.                                                *)
C18_FindByIDAbsenceIsNotAnError ==
    [][last'.op = "FindByID"
       => /\ ~last'.err
          /\ UNCHANGED <<issues, scopes, links, edges>>
          /\ last'.arg \notin DOMAIN issues => last'.ret = NoIssue
          /\ last'.arg \in DOMAIN issues
               => /\ last'.ret.id = last'.arg
                  /\ last'.ret.issue = issues[last'.arg]
                  /\ last'.ret.scope = scopes[issues[last'.arg].scope_id]
                  /\ BagToSet(last'.ret.links) = LinksOf(DB, last'.arg)
                  /\ \A l \in LinksOf(DB, last'.arg) :
                        CopiesIn(l, last'.ret.links) = CopiesIn(l, links)]_vars

C18_Witness ==
    /\ last.op = "FindByID"
    /\ ~last.err
    /\ last.arg \notin DOMAIN issues
    /\ last.ret = NoIssue
    /\ DOMAIN issues # {}
    /\ links # EmptyBag

\* q occurs in s as a substring, letter case ignored.
ContainsFold(s, q) ==
    \E k \in 1..(Len(s) - Len(q) + 1) : SubSeq(Lower(s), k, k + Len(q) - 1) = Lower(q)

\* Issue i of store d satisfies every filter that f supplies.
Satisfies(d, i, f) ==
    /\ f.namespace # "" => d.issues[i].namespace = f.namespace
    /\ f.severity # "" => d.issues[i].severity = f.severity
    /\ f.issueType # "" => d.issues[i].issue_type = f.issueType
    /\ f.state # "" => d.issues[i].state = f.state
    /\ f.resourceType # "" => d.scopes[d.issues[i].scope_id].resource_type = f.resourceType
    /\ f.resourceName # "" => d.scopes[d.issues[i].scope_id].resource_name = f.resourceName
    /\ f.search # "" => \/ ContainsFold(Chars(d.issues[i].title), Chars(f.search))
                        \/ ContainsFold(Chars(d.issues[i].description), Chars(f.search))

(* C19. FindAll(filters) matches exactly the issues that satisfy every      *)
(* supplied filter (the search text being a case-insensitive substring of   *)
(* the title or of the description): the total it reports is their number   *)
(* whatever limit and offset are, and its page holds only such issues.      *)
C19_FindAllMatchesConjunctionOfFilters ==
    [][last'.op = "FindAll"
       => LET f == last'.arg
              matching == { i \in DOMAIN issues : Satisfies(DB, i, f) }
              page == last'.ret.issues
          IN  /\ ~last'.err
              /\ last'.ret.total = Cardinality(matching)
              /\ { page[k].id : k \in DOMAIN page } \subseteq matching]_vars

(* C20. The page of FindAll is sorted by detected-at descending, holds no   *)
(* issue twice, comes after `offset` skipped matching issues that are not   *)
(* older than its first issue and before the remaining ones, which are not  *)
(* newer than its last issue, and holds min(limit, total - offset) issues   *)
(* (none when offset exceeds total), a limit of 0 standing for 50.          *)
C20_FindAllPageIsSortedAndBounded ==
    [][last'.op = "FindAll"
       => LET f == last'.arg
              page == last'.ret.issues
              total == last'.ret.total
              limit == IF f.limit = 0 THEN 50 ELSE f.limit
              rest == FindAllRows(DB, f) \ { page[k].id : k \in DOMAIN page }
          IN  /\ \A j, k \in DOMAIN page :
                    j < k => /\ page[j].issue.detected_at >= page[k].issue.detected_at
                             /\ page[j].id # page[k].id
              /\ \A k \in DOMAIN page : page[k].issue = issues[page[k].id]
              /\ Len(page) = IF f.offset >= total THEN 0 ELSE Min({limit, total - f.offset})
              /\ Len(page) <= limit
              /\ \E skipped \in SUBSET rest :
                    /\ Cardinality(skipped) = Min({f.offset, total})
                    /\ \A s \in skipped, k \in DOMAIN page :
                          issues[s].detected_at >= page[k].issue.detected_at
                    /\ \A r \in rest \ skipped, k \in DOMAIN page :
                          issues[r].detected_at <= page[k].issue.detected_at]_vars

C20_Witness ==
    /\ last.op = "FindAll"
    /\ last.arg = Paged(NoFilter, 1, 1)
    /\ last.ret.total = 2
    /\ Len(last.ret.issues) = 1
    /\ \E i \in DOMAIN issues :
          issues[i].detected_at > last.ret.issues[1].issue.detected_at

\* Caller p's transaction has committed and its call has not returned yet.
HasCommitted(p) == pc[p] = "reload"

(* C17. A call of a mutating operation in which a step fails returns an     *)
(* error and leaves the store as it was before the call: the statements of  *)
(* an open transaction change nothing in the store, and a call that         *)
(* returns an error has committed nothing.                                  *)
C17_FailedCallLeavesStoreUntouched ==
    [][\A p \in Procs :
        /\ (pc'[p] \in {"create", "update", "delete"} /\ call'[p] # call[p])
              => UNCHANGED <<issues, scopes, links, edges>>
        /\ (done'[p] # done[p] /\ done'[p][Len(done'[p])].err)
              => /\ UNCHANGED <<issues, scopes, links, edges>>
                 /\ ~HasCommitted(p)]_vars

----------------------------------------------------------------------------
(* C21. When no stored issue has the dedup key of the report,               *)
(* CreateOrUpdate and Create succeed and insert exactly one issue and       *)
(* exactly one scope owned by it: the state is ACTIVE unless one is         *)
(* supplied, resolved-at is null, the scope's resource namespace defaults   *)
(* to the issue's namespace, there is one link per supplied link, and the   *)
(* returned issue carries the report's fields.                              *)

\* The stored issue id of store d carries the fields of report req.
CarriesReport(d, id, req) ==
    /\ id \in DOMAIN d.issues
    /\ d.issues[id].title = req.title
    /\ d.issues[id].description = req.description
    /\ d.issues[id].severity = req.severity
    /\ d.issues[id].issue_type = req.issueType
    /\ d.issues[id].namespace = req.namespace
    /\ d.issues[id].scope_id \in DOMAIN d.scopes
    /\ IssueKey(d, id) = ReportKey(req)
    /\ \A l \in LinksOf(d, id) : \E k \in 1..Len(req.links) : LinkRows(id, req.links)[k] = l
    /\ \A k \in 1..Len(req.links) :
            CopiesIn(LinkRows(id, req.links)[k], d.links) =
                Cardinality({j \in 1..Len(req.links) :
                                LinkRows(id, req.links)[j] = LinkRows(id, req.links)[k]})

\* Store d1 is store d0 plus one issue, created from req, and its scope.
InsertedOne(d0, d1, id, req) ==
    /\ id \notin DOMAIN d0.issues
    /\ DOMAIN d1.issues = DOMAIN d0.issues \cup {id}
    /\ \A i \in DOMAIN d0.issues : d1.issues[i] = d0.issues[i]
    /\ Cardinality(DOMAIN d1.scopes) = Cardinality(DOMAIN d0.scopes) + 1
    /\ \A s \in DOMAIN d0.scopes : s \in DOMAIN d1.scopes /\ d1.scopes[s] = d0.scopes[s]
    /\ d1.issues[id].scope_id \in DOMAIN d1.scopes \ DOMAIN d0.scopes
    /\ d1.issues[id].state = IF req.state = "" THEN ACTIVE ELSE req.state
    /\ d1.issues[id].resolved_at = NoTime
    /\ CarriesReport(d1, id, req)

C21_NoMatchInsertsOneIssue ==
    [][(/\ last'.op \in {"CreateOrUpdate", "Create"}
        /\ IssuesWithKey(DB, ReportKey(last'.arg)) = {})
       => (/\ ~last'.err
           /\ InsertedOne(DB, DB', last'.ret, last'.arg))]_vars

----------------------------------------------------------------------------
(* C22. FindDuplicate(report) returns the issue whose dedup key equals the  *)
(* key of the report when there is one, ACTIVE or RESOLVED, and none        *)
(* otherwise; it never modifies the store.                                  *)
C22_FindDuplicateReturnsIssueOfKey ==
    [][last'.op = "FindDuplicate"
       => (/\ ~last'.err
           /\ DB' = DB
           /\ IF IssuesWithKey(DB, ReportKey(last'.arg)) = {}
              THEN last'.ret = NoId
              ELSE last'.ret \in IssuesWithKey(DB, ReportKey(last'.arg)))]_vars

----------------------------------------------------------------------------
(* C23. In every reachable state each issue references exactly one stored   *)
(* scope, no two issues reference the same scope, and no scope is stored    *)
(* without an issue that references it.                                     *)
C23_OneScopePerIssue ==
    /\ \A i \in DOMAIN issues : issues[i].scope_id \in DOMAIN scopes
    /\ \A i, j \in DOMAIN issues : i # j => issues[i].scope_id # issues[j].scope_id
    /\ \A s \in DOMAIN scopes : \E i \in DOMAIN issues : issues[i].scope_id = s

\* An issue has been deleted while another issue and its scope are stored.
C23_Witness ==
    /\ last.op = "Delete"
    /\ ~last.err
    /\ last.arg \notin DOMAIN issues
    /\ DOMAIN issues # {}
    /\ DOMAIN scopes = {issues[i].scope_id : i \in DOMAIN issues}

----------------------------------------------------------------------------
----------------------------------------------------------------------------
(* C25. The pipeline-failure webhook is idempotent: after any request with  *)
(* a given pipelineName and namespace there is exactly one issue of type    *)
(* pipeline with scope (pipelinerun, pipelineName, namespace) in that       *)
(* namespace; the first request creates it and later ones update it.        *)

\* The dedup key of the issue of a pipeline-failure request.
PipelineKey(req) == <<req.namespace, "pipeline", "pipelinerun", req.pipelineName, req.namespace>>

----------------------------------------------------------------------------
(* C26. A pipeline-success webhook resolves every issue that was ACTIVE     *)
(* with scope (pipelinerun, pipelineName) in the namespace, the issue of an *)
(* earlier pipeline-failure webhook included: each is RESOLVED with         *)
(* resolved-at set, and the response reports how many were resolved.        *)
C26_PipelineSuccessResolves ==
    [][(last'.op = "PipelineSuccess" /\ BindsSuccess(last'.arg))
       => LET ids == ActiveMatching(DB, "pipelinerun", last'.arg.pipelineName, last'.arg.namespace)
          IN  /\ last'.ret.status = 200
              /\ last'.ret.resolved = Cardinality(ids)
              /\ DOMAIN issues' = DOMAIN issues
              /\ \A i \in ids : /\ issues'[i].state = RESOLVED
                                /\ issues'[i].resolved_at # NoTime
              /\ ActiveMatching(DB', "pipelinerun", last'.arg.pipelineName,
                                last'.arg.namespace) = {}]_vars

\* The success webhook has resolved the issue of the failure webhook and
\* the issue of another type on the same scope.
C26_Witness ==
    /\ last.op = "PipelineSuccess"
    /\ last.ret = [status |-> 200, resolved |-> 2]
    /\ \E i \in DOMAIN issues :
            /\ IssueKey(DB, i) = PipelineKey(last.arg)
            /\ issues[i].state = RESOLVED
            /\ issues[i].resolved_at # NoTime

----------------------------------------------------------------------------
(* C27. In no reachable state are there two ACTIVE issues whose scopes name *)
(* the same resource: the same resource type, resource name and resource    *)
(* namespace.                                                               *)
C27_NoTwoActiveIssuesOnOneResource ==
    \A i, j \in DOMAIN issues :
        (/\ i # j
         /\ issues[i].state = ACTIVE
         /\ issues[j].state = ACTIVE)
        => scopes[issues[i].scope_id] # scopes[issues[j].scope_id]

----------------------------------------------------------------------------
(* C28. Only an authenticated caller can post issues: a request without a   *)
(* bearer token, with a malformed Authorization header, or with a token     *)
(* that TokenReview reports as not authenticated never reaches the handler  *)
(* that creates issues.                                                     *)

\* The request carries no token that TokenReview accepts.
NotAuthenticated(r) == extractBearerToken(r.header).err \/ r.review = "no"

\* The response was written by the handler, not by a middleware.
ReachedHandler(r, ret) ==
    \/ ret.status \in {201, 500}
    \/ ret.status = 400 /\ ~BindsFailure(r.body) /\ ~RunMiddleware(r).abort

C28_OnlyAuthenticatedCallersPost ==
    (last.op = "POST pipeline-failure" /\ NotAuthenticated(last.arg))
    => ~ReachedHandler(last.arg, last.ret)

----------------------------------------------------------------------------
(* C29. Under every interleaving of concurrent AddRelatedIssue calls        *)
(* (AddRelatedIssue(a, b) racing with AddRelatedIssue(b, a) or with another *)
(* AddRelatedIssue(a, b)) there is at most one edge row between any pair of *)
(* issues, whatever its direction.                                          *)

\* The number of edge rows between a and b in either direction.
EdgeCount(d, a, b) ==
    CopiesIn([source_id |-> a, target_id |-> b], d.edges)
        + (IF a = b THEN 0 ELSE CopiesIn([source_id |-> b, target_id |-> a], d.edges))

C29_OneEdgePerPairUnderConcurrency ==
    \A a, b \in DOMAIN issues : EdgeCount(DB, a, b) <= 1

----------------------------------------------------------------------------
(* C30. When the transaction of CreateOrUpdate has matched an issue in its  *)
(* dedup read, no write of another transaction to that issue row (update,   *)
(* resolve or delete) takes effect before the transaction commits or        *)
(* aborts: the matched row stays locked until the transaction ends.         *)
C30_MatchedIssueIsLockedUntilTheEnd ==
    [][\A p \in Procs :
        (/\ pc[p] = "update"
         /\ call[p].existing.id \in DOMAIN issues
         /\ \/ call[p].existing.id \notin DOMAIN issues'
            \/ issues'[call[p].existing.id] # issues[call[p].existing.id])
        => (pc'[p] # pc[p] \/ call'[p] # call[p])]_vars

----------------------------------------------------------------------------
(* C31. ResolveByScope is one atomic operation: under every interleaving    *)
(* the issues it writes are exactly the issues that are ACTIVE and match    *)
(* at the moment of the write; an issue that another call has resolved      *)
(* since the selection is not written again and is not counted.             *)
C31_ResolveByScopeIsAtomic ==
    [][\A p \in Procs :
        (pc[p] = "resolve" /\ pc'[p] = "idle")
        => LET a == call[p].arg.scope
               now == ActiveMatching(DB, a[1], a[2], a[3])
           IN  /\ done'[p][Len(done'[p])].ret = Cardinality(now)
               /\ \A i \in DOMAIN issues \ now : i \in DOMAIN issues' /\ issues'[i] = issues[i]
               /\ \A i \in now : i \in DOMAIN issues' /\ issues'[i].state = RESOLVED]_vars

----------------------------------------------------------------------------
(* C32. Under every interleaving of the statements of AddRelatedIssue,      *)
(* CreateOrUpdate, Update and Delete, every stored link belongs to a stored *)
(* issue and every stored edge has a stored source and a stored target: an  *)
(* AddRelatedIssue that races with the Delete of one endpoint leaves no     *)
(* dangling edge.                                                           *)
C32_NoDanglingLinkOrEdge ==
    /\ \A l \in BagToSet(links) : l.issue_id \in DOMAIN issues
    /\ \A e \in BagToSet(edges) : e.source_id \in DOMAIN issues /\ e.target_id \in DOMAIN issues

\* An AddRelatedIssue has found both issues and is about to insert the edge,
\* and a Delete of one endpoint has committed meanwhile.
C32_Witness ==
    \E p \in Procs, q \in Procs :
        /\ pc[p] = "relInsert"
        /\ Len(done[q]) = 1
        /\ done[q][1].op = "Delete" /\ ~done[q][1].err
        /\ done[q][1].arg \in {call[p].arg[1], call[p].arg[2]}
        /\ done[q][1].arg \notin DOMAIN issues

----------------------------------------------------------------------------
(* C33. An edge from an issue to itself is rejected: AddRelatedIssue(a, a)  *)
(* returns an error, and no stored edge has the same issue as source and    *)
(* target.                                                                  *)
C33_SelfEdgeIsRejected ==
    /\ (last.op = "AddRelatedIssue" /\ last.arg[1] = last.arg[2]) => last.err
    /\ \A e \in BagToSet(edges) : e.source_id # e.target_id

----------------------------------------------------------------------------
\* The issue an update of the single caller was applied to, NoId when the
\* call was no update of a stored issue with scope fields.
ScopeUpdateTarget ==
    IF last'.err THEN NoId
    ELSE IF last'.op = "Update" /\ last'.arg.req.scope # NoScope THEN last'.arg.id
    ELSE IF last'.op = "CreateOrUpdate" /\ last'.arg.scope # NoScope /\ last'.ret \in DOMAIN issues
         THEN last'.ret
    ELSE NoId

\* The scope fields a request supplies are the fields of the row.
ScopeCarries(row, sc) ==
    /\ sc.resourceType # "" => row.resource_type = sc.resourceType
    /\ sc.resourceName # "" => row.resource_name = sc.resourceName
    /\ sc.resourceNamespace # "" => row.resource_namespace = sc.resourceNamespace

(* C34. An update that supplies scope fields updates the scope row of the   *)
(* issue in place: the issue keeps its scope id, no scope row is inserted   *)
(* or deleted, the row takes the supplied fields, and the scope of every    *)
(* other issue is left as it was.                                           *)
C34_ScopeIsUpdatedInPlace ==
    [][ScopeUpdateTarget # NoId
        => LET id == ScopeUpdateTarget
               sid == issues[id].scope_id
               sc == IF last'.op = "Update" THEN last'.arg.req.scope ELSE last'.arg.scope
           IN  /\ id \in DOMAIN issues'
               /\ issues'[id].scope_id = sid
               /\ DOMAIN scopes' = DOMAIN scopes
               /\ ScopeCarries(scopes'[sid], sc)
               /\ \A s \in DOMAIN scopes \ {sid} : scopes'[s] = scopes[s]]_vars

\* Two issues are stored, and an Update with a scope name has renamed the
\* resource of the first.
C34_Witness ==
    /\ last.op = "Update" /\ ~last.err
    /\ last.arg.req = OnlyScopeName
    /\ Cardinality(DOMAIN issues) = 2
    /\ scopes[issues[last.arg.id].scope_id].resource_name = "y"

----------------------------------------------------------------------------
(* C35. Update of an id that matches no issue returns an error and writes   *)
(* nothing; and with a Delete running concurrently, a CreateOrUpdate or an  *)
(* Update that returns no error returns an issue, never the pair of no      *)
(* issue and no error.                                                      *)
C35_NoNilIssueWithNilError ==
    /\ [](\A p \in Procs : \A k \in 1..Len(done[p]) :
            (done[p][k].op \in {"Create", "CreateOrUpdate", "Update"} /\ ~done[p][k].err)
                => done[p][k].ret # NoId)
    /\ [][\A p \in Procs :
            (pc[p] = "idle" /\ Len(done'[p]) > Len(done[p]) /\ done'[p][Len(done'[p])].op = "Update")
                => /\ done'[p][Len(done'[p])].err
                   /\ UNCHANGED <<issues, scopes, links, edges>>]_vars

----------------------------------------------------------------------------
\* What the open transaction of caller p holds once its next statement has run.
NextWrite(p) ==
    Diff(DB,
         IF pc[p] = "update"
         THEN UpdateStmt(View(p), call[p].existing, call[p].arg, call[p].k + 1, clock, clock)
         ELSE DeleteStmt(View(p), call[p].existing, call[p].k + 1),
         delta[p].locked)

\* The next statement of p waits for a row lock of the open transaction of q.
WaitsFor(p, q) ==
    /\ p # q
    /\ pc[p] \in {"update", "delete"}
    /\ Conflict(NextWrite(p), delta[q])

(* C36. Open transactions never wait for each other's row locks in a cycle: *)
(* when a Delete of an issue runs concurrently with a CreateOrUpdate or an  *)
(* Update of the same issue, no state has two transactions each of which    *)
(* waits for a lock the other holds.                                        *)
C36_NoLockWaitCycle ==
    \A p \in Procs, q \in Procs : ~(WaitsFor(p, q) /\ WaitsFor(q, p))

----------------------------------------------------------------------------
\* The link rows of an issue, with their multiplicities.
LinkBagOf(d, id) == [l \in LinksOf(d, id) |-> d.links[l]]

(* C37. When Create finds a stored issue for its report, it writes title,   *)
(* description, severity, issue type, namespace, the state when the report  *)
(* has one, and the scope from the report, and leaves the links of the      *)
(* issue as they were even if the report has links; CreateOrUpdate with a   *)
(* report that has links replaces the links of the issue by them.           *)
C37_CreateKeepsLinksOfExistingIssue ==
    [][(last'.op \in {"Create", "CreateOrUpdate"} /\ ~last'.err /\ last'.ret \in DOMAIN issues)
        => LET id == last'.ret
               req == last'.arg
               row == issues'[id]
           IN  /\ row.title = req.title /\ row.description = req.description
               /\ row.severity = req.severity /\ row.issue_type = req.issueType
               /\ row.namespace = req.namespace
               /\ req.state # "" => row.state = req.state
               /\ row.scope_id = issues[id].scope_id
               /\ ScopeCarries(scopes'[row.scope_id], req.scope)
               /\ IF last'.op = "Create"
                  THEN LinkBagOf([links |-> links'], id) = LinkBagOf(DB, id)
                  ELSE Len(req.links) > 0
                        => LinkBagOf([links |-> links'], id) = AddRows(EmptyBag, LinkRows(id, req.links))]_vars

\* Create with a report that has the link u2 has found the issue that has
\* the link u1: the title is the report's, the link is still u1.
C37_Witness ==
    /\ last.op = "Create" /\ ~last.err
    /\ last.arg = ReportA2
    /\ last.ret \in DOMAIN issues
    /\ issues[last.ret].title = "t2"
    /\ LinkBagOf(DB, last.ret) = AddRows(EmptyBag, LinkRows(last.ret, <<Link1>>))

----------------------------------------------------------------------------
\* The request asks for an impersonation that the middleware has to decide:
\* the flag is set, the caller is no publisher, and the user header is there.
AsksImpersonation(r) == r.flag /\ r.type # "publisher" /\ r.user # ""

\* Every attribute of the request is one the requester may impersonate.
AllAllowed(r) ==
    \A k \in DOMAIN newImpersonatedData(r).resourceAttributes :
        r.reviews[newImpersonatedData(r).resourceAttributes[k]] = "allowed"

(* C38. The Impersonation middleware replaces the user of the request by    *)
(* the impersonated one only if the requester may impersonate every         *)
(* requested attribute; if a review does not allow one, the request is      *)
(* aborted with 401 and the user of the context stays; impersonation        *)
(* headers without the user header are rejected with 400.                   *)
C38_ImpersonationNeedsEveryReviewAllowed ==
    last.op = "Impersonation"
    => LET r == last.arg
           out == last.ret
       IN  /\ (AsksImpersonation(r) /\ ~out.abort) => AllAllowed(r)
           /\ (AsksImpersonation(r) /\ r.ctxUser # "" /\ ~AllAllowed(r))
                 => out.abort /\ out.status = 401 /\ out.user = r.ctxUser
           /\ (r.flag /\ r.type # "publisher" /\ r.user = ""
                    /\ (r.groups # <<>> \/ r.uid # "" \/ r.extras # <<>>))
                 => out.abort /\ out.status = 400

----------------------------------------------------------------------------
(* C39. GetEnvDurationOrDefault returns the parsed duration when the        *)
(* variable holds a valid duration string, and the default when the         *)
(* variable is not set, is empty or cannot be parsed as a duration.         *)
C39_DurationParsedOrDefault ==
    last.op = "GetEnvDurationOrDefault"
    => LET s == Getenv(last.arg.value) IN
       IF s # <<>> /\ ParseDuration(s).ok
       THEN last.ret = ParseDuration(s).d
       ELSE last.ret = last.arg.defaultValue

====
